---- MODULE Spec2Model ----
(***************************************************************************)
(* Model of the collection / selectable-collection core of solid-aria.     *)
(*                                                                         *)
(*   packages/collection/src/createCollection.ts   the reactive Collection *)
(*   packages/selection/src/createSelectableCollection.ts  the keyboard /  *)
(*                                                 focus controller        *)
(*                                                                         *)
(* Indices are 0-based as in the source and -1 is the "absent" index.      *)
(* Strings are sequences of one-character strings.                         *)
(***************************************************************************)
EXTENDS Integers, Sequences, FiniteSets, TLC

(***************************************************************************)
(* Bounds of the model.                                                    *)
(***************************************************************************)
\* Largest number of items held by the Collection at one time.
MaxItems == 3

\* Longest typeahead filter string.
MaxFilterLen == 2

\* Start indices range over -StartSlack .. MaxItems + StartSlack.
StartSlack == 1

\* The most handlers given to one chainHandlers call.
MaxHandlers == 3

(***************************************************************************)
(* Values.                                                                 *)
(***************************************************************************)
Apple == <<"A", "p", "p", "l", "e">>

Banana == <<"B", "a", "n", "a", "n", "a">>

Apricot == <<"A", "p", "r", "i", "c", "o", "t">>

\* `undefined` as a key argument or a key result.
Undefined == "undefined"

\* The keys widgets give to their items.
Keys == {"k1", "k2", "k3", "k4"}

\* types.ts Item: key, textValue and ref (the item's own root element, which
\* identifies the object).  isDisabled is not read by the Collection.
Item(k, t, r) == [key |-> k, textValue |-> t, ref |-> r]

\* The Item objects widgets create.  Objects 1 and 4 share a key, objects 2
\* and 5 agree on every field but are two objects.
ItemPool ==
  { Item("k1", Apple, 1), Item("k2", Banana, 2), Item("k3", Apricot, 3),
    Item("k1", Apricot, 4), Item("k2", Banana, 5) }

\* `null` as an item result (`?? null`).
Null == Item("null", <<>>, 0)

\* Characters typed into a typeahead filter.
FilterChars == {"a", "A", "b"}

RECURSIVE StringsUpTo(_)
StringsUpTo(n) ==
  IF n = 0 THEN {<<>>}
  ELSE LET shorter == StringsUpTo(n - 1)
       IN shorter \cup {Append(s, c) : s \in {t \in shorter : Len(t) = n - 1}, c \in FilterChars}

Filters == StringsUpTo(MaxFilterLen)

StartIndexes == (0 - StartSlack) .. (MaxItems + StartSlack)

Indexes == (0 - 1 - StartSlack) .. (MaxItems + StartSlack)

Min(a, b) == IF a < b THEN a ELSE b

Max(a, b) == IF a > b THEN a ELSE b

(***************************************************************************)
(* State.                                                                  *)
(***************************************************************************)
VARIABLES
  items,            \* createCollection: the `items` signal, an array of Item
  call,             \* the last Collection operation, its arguments and its result
  selectionMode,    \* SelectionManager.selectionMode()
  selectedKeys,     \* SelectionManager.selectedKeys()
  anchorKey,        \* SelectionManager: the key a range selection extends from
  focusedKey,       \* SelectionManager.focusedKey()
  isFocused,        \* SelectionManager.isFocused()
  delegateMethods,  \* the methods the KeyboardDelegate implements
  mounted,          \* createSelectableCollection: onMount has run
  typeSelect,       \* createTypeSelect: the search buffer and its pending reset timers
  ev                \* the last DOM event handled, what it read and what it did

collVars == <<items, call>>

managerVars == <<selectionMode, selectedKeys, anchorKey, focusedKey, isFocused>>

ctlVars == <<selectionMode, selectedKeys, anchorKey, focusedKey, isFocused, delegateMethods,
             mounted, typeSelect, ev>>

vars == <<items, call, selectionMode, selectedKeys, anchorKey, focusedKey, isFocused,
          delegateMethods, mounted, typeSelect, ev>>

NoCall == [op |-> "none"]

NoEvent == [type |-> "none"]

\* The idle typeahead: an empty search buffer and no reset timer pending
\* (timers counts the timeouts that are scheduled and not cancelled).
NoTypeSelect == [search |-> <<>>, timers |-> 0]

(***************************************************************************)
(* Array primitives of the host language, on 0-based indices.              *)
(***************************************************************************)
\* Array.prototype.slice(start, end): negative bounds count from the end,
\* bounds are clamped to the array.
Slice(arr, start, end) ==
  LET n == Len(arr)
      from == IF start < 0 THEN Max(n + start, 0) ELSE Min(start, n)
      to == IF end < 0 THEN Max(n + end, 0) ELSE Min(end, n)
  IN IF from >= to THEN <<>> ELSE SubSeq(arr, from + 1, to)

\* Array.prototype.slice(start)
SliceFrom(arr, start) == Slice(arr, start, Len(arr))

\* Array.prototype.indexOf(x): first index holding that very object, or -1.
IndexOf(arr, x) ==
  IF \E i \in 1..Len(arr) : arr[i] = x
  THEN (CHOOSE i \in 1..Len(arr) : arr[i] = x /\ \A j \in 1..(i - 1) : arr[j] # x) - 1
  ELSE 0 - 1

\* Array.prototype.findIndex(item => item.key === key): first index, or -1.
FindIndexOfKey(arr, key) ==
  IF \E i \in 1..Len(arr) : arr[i].key = key
  THEN (CHOOSE i \in 1..Len(arr) :
          arr[i].key = key /\ \A j \in 1..(i - 1) : arr[j].key # key) - 1
  ELSE 0 - 1

(***************************************************************************)
(* Text comparison.                                                        *)
(***************************************************************************)
\* The collator compares case-insensitively: letters are compared by their
\* base letter.
Fold(c) ==
  CASE c = "A" -> "a"
    [] c = "B" -> "b"
    [] OTHER -> c

\* collator.compare(a, b) === 0
CollatorEqual(a, b) ==
  /\ Len(a) = Len(b)
  /\ \A i \in 1..Len(a) : Fold(a[i]) = Fold(b[i])

\* utils.ts filterItems(items, filter, collator): the items whose textValue
\* starts with filter under the collator, in the order of `arr`.
filterItems(arr, filter) ==
  LET Test(item) == CollatorEqual(Slice(item.textValue, 0, Len(filter)), filter)
  IN SelectSeq(arr, Test)

(***************************************************************************)
(* createCollection: the queries, as functions of the items array.         *)
(***************************************************************************)
isCollectionEmpty(arr) == Len(arr) <= 0

\* Mutant of findByIndex: a negative index counts from the end, as Array.at.
findByIndex_at(arr, index) ==
  IF index >= 0 /\ index < Len(arr) THEN arr[index + 1]
  ELSE IF index < 0 /\ Len(arr) + index >= 0 THEN arr[Len(arr) + index + 1]
  ELSE Null

\* items()[index] ?? null
findByIndex(arr, index) ==
  IF index >= 0 /\ index < Len(arr) THEN arr[index + 1] ELSE Null

\* items().find(item => item.key === key) ?? null
findByKey(arr, key) ==
  LET i == FindIndexOfKey(arr, key)
  IN IF i >= 0 THEN arr[i + 1] ELSE Null

\* Mutant of findIndexByKey: the last index holding the key (findLastIndex).
findIndexByKey_last(arr, key) ==
  IF \E i \in 1..Len(arr) : arr[i].key = key
  THEN (CHOOSE i \in 1..Len(arr) :
          arr[i].key = key /\ \A j \in (i + 1)..Len(arr) : arr[j].key # key) - 1
  ELSE 0 - 1

\* items().findIndex(item => item.key === key)
findIndexByKey(arr, key) == FindIndexOfKey(arr, key)

\* filter.split("").every(letter => letter === array[0])
allSameLetter(filter) == \A i \in 1..Len(filter) : filter[i] = filter[1]

\* Mutant of findIndexBySearch: the index is taken in the rotated array.
findIndexBySearch_rotated(arr, filter, startIndex) ==
  LET orderedItems == SliceFrom(arr, startIndex) \o Slice(arr, 0, startIndex)
      exact == filterItems(orderedItems, filter)
      firstLetter == IF Len(filter) = 0 THEN <<>> ELSE <<filter[1]>>
      matches == filterItems(orderedItems, firstLetter)
  IN IF exact # <<>> THEN IndexOf(orderedItems, exact[1])
     ELSE IF allSameLetter(filter)
          THEN IF matches # <<>> THEN IndexOf(orderedItems, matches[1]) ELSE 0 - 1
          ELSE 0 - 1

\* Mutant of findIndexBySearch: the first-letter fallback is taken for every
\* filter, repeated letter or not.
findIndexBySearch_anyFilter(arr, filter, startIndex) ==
  LET orderedItems == SliceFrom(arr, startIndex) \o Slice(arr, 0, startIndex)
      exact == filterItems(orderedItems, filter)
      firstLetter == IF Len(filter) = 0 THEN <<>> ELSE <<filter[1]>>
      matches == filterItems(orderedItems, firstLetter)
  IN IF exact # <<>> THEN IndexOf(arr, exact[1])
     ELSE IF matches # <<>> THEN IndexOf(arr, matches[1]) ELSE 0 - 1

\* Mutant of findIndexBySearch: the items are searched in collection order,
\* whatever the start index.
findIndexBySearch_unrotated(arr, filter, startIndex) ==
  LET orderedItems == arr
      exact == filterItems(orderedItems, filter)
      firstLetter == IF Len(filter) = 0 THEN <<>> ELSE <<filter[1]>>
      matches == filterItems(orderedItems, firstLetter)
  IN IF exact # <<>> THEN IndexOf(arr, exact[1])
     ELSE IF allSameLetter(filter)
          THEN IF matches # <<>> THEN IndexOf(arr, matches[1]) ELSE 0 - 1
          ELSE 0 - 1

\* Mutant of findIndexBySearch: only the items from the start index on are
\* searched, the ones before it are not appended.
findIndexBySearch_tailOnly(arr, filter, startIndex) ==
  LET orderedItems == SliceFrom(arr, startIndex)
      exact == filterItems(orderedItems, filter)
      firstLetter == IF Len(filter) = 0 THEN <<>> ELSE <<filter[1]>>
      matches == filterItems(orderedItems, firstLetter)
  IN IF exact # <<>> THEN IndexOf(arr, exact[1])
     ELSE IF allSameLetter(filter)
          THEN IF matches # <<>> THEN IndexOf(arr, matches[1]) ELSE 0 - 1
          ELSE 0 - 1

findIndexBySearch(arr, filter, startIndex) ==
  LET orderedItems == SliceFrom(arr, startIndex) \o Slice(arr, 0, startIndex)
      exact == filterItems(orderedItems, filter)
      \* filter[0]; it is undefined only for the empty filter, which matches
      \* every item, so the branch below is then taken on an empty array only
      firstLetter == IF Len(filter) = 0 THEN <<>> ELSE <<filter[1]>>
      matches == filterItems(orderedItems, firstLetter)
  IN IF exact # <<>> THEN IndexOf(arr, exact[1])
     ELSE IF allSameLetter(filter)
          THEN IF matches # <<>> THEN IndexOf(arr, matches[1]) ELSE 0 - 1
          ELSE 0 - 1

getFirstIndex(arr) == IF isCollectionEmpty(arr) THEN 0 - 1 ELSE 0

getLastIndex(arr) == IF isCollectionEmpty(arr) THEN 0 - 1 ELSE Len(arr) - 1

\* Mutant of isFirstIndex: no test for the empty collection.
isFirstIndex_noEmptyTest(arr, index) == index = getFirstIndex(arr)

isFirstIndex(arr, index) ==
  IF isCollectionEmpty(arr) THEN FALSE ELSE index = getFirstIndex(arr)

isLastIndex(arr, index) ==
  IF isCollectionEmpty(arr) THEN FALSE ELSE index = getLastIndex(arr)

\* the `keys` memo
keys(arr) == [i \in 1..Len(arr) |-> arr[i].key]

(***************************************************************************)
(* createCollection: the operations.  A caller issues one operation, reads *)
(* its result (Return) and issues the next.                                *)
(***************************************************************************)
InitCollection ==
  /\ items = <<>>
  /\ call = NoCall

\* Mutant of AddItem: the item is put in front.
AddItem_prepend(item) ==
  /\ call = NoCall
  /\ Len(items) < MaxItems
  /\ \A i \in 1..Len(items) : items[i] # item
  /\ items' = <<item>> \o items
  /\ call' = [op |-> "addItem", item |-> item, before |-> items]
  /\ UNCHANGED ctlVars

\* An Item object is created by the widget that declares the child, for this
\* one registration: the object added is not one the Collection holds.
AddItem(item) ==
  /\ call = NoCall
  /\ Len(items) < MaxItems
  /\ \A i \in 1..Len(items) : items[i] # item
  /\ items' = Append(items, item)
  /\ call' = [op |-> "addItem", item |-> item, before |-> items]
  /\ UNCHANGED ctlVars

RemoveItem(key) ==
  LET Keep(item) == item.key # key
  IN /\ call = NoCall
     /\ items' = SelectSeq(items, Keep)
     /\ call' = [op |-> "removeItem", key |-> key, before |-> items]
     /\ UNCHANGED ctlVars

FindByIndex(index) ==
  /\ call = NoCall
  /\ call' = [op |-> "findByIndex", index |-> index, ret |-> findByIndex(items, index)]
  /\ UNCHANGED <<items, ctlVars>>

FindByKey(key) ==
  /\ call = NoCall
  /\ call' = [op |-> "findByKey", key |-> key, ret |-> findByKey(items, key)]
  /\ UNCHANGED <<items, ctlVars>>

FindIndexByKey(key) ==
  /\ call = NoCall
  /\ call' = [op |-> "findIndexByKey", key |-> key, ret |-> findIndexByKey(items, key)]
  /\ UNCHANGED <<items, ctlVars>>

FindIndexBySearch(filter, startIndex) ==
  /\ call = NoCall
  /\ call' = [op |-> "findIndexBySearch", filter |-> filter, startIndex |-> startIndex,
              ret |-> findIndexBySearch(items, filter, startIndex)]
  /\ UNCHANGED <<items, ctlVars>>

GetFirstIndex ==
  /\ call = NoCall
  /\ call' = [op |-> "getFirstIndex", ret |-> getFirstIndex(items)]
  /\ UNCHANGED <<items, ctlVars>>

GetLastIndex ==
  /\ call = NoCall
  /\ call' = [op |-> "getLastIndex", ret |-> getLastIndex(items)]
  /\ UNCHANGED <<items, ctlVars>>

IsFirstIndex(index) ==
  /\ call = NoCall
  /\ call' = [op |-> "isFirstIndex", index |-> index, ret |-> isFirstIndex(items, index)]
  /\ UNCHANGED <<items, ctlVars>>

IsLastIndex(index) ==
  /\ call = NoCall
  /\ call' = [op |-> "isLastIndex", index |-> index, ret |-> isLastIndex(items, index)]
  /\ UNCHANGED <<items, ctlVars>>

\* The caller has read the result.
Return ==
  /\ call # NoCall
  /\ call' = NoCall
  /\ UNCHANGED <<items, ctlVars>>

NextCollection ==
  \/ \E item \in ItemPool : AddItem(item)
  \/ \E key \in Keys : RemoveItem(key)
  \/ \E index \in Indexes : FindByIndex(index)
  \/ \E key \in Keys : FindByKey(key)
  \/ \E key \in Keys \cup {Undefined} : FindIndexByKey(key)
  \/ \E filter \in Filters, startIndex \in StartIndexes : FindIndexBySearch(filter, startIndex)
  \/ GetFirstIndex
  \/ GetLastIndex
  \/ \E index \in Indexes : IsFirstIndex(index)
  \/ \E index \in Indexes : IsLastIndex(index)
  \/ Return

\* The state of a controller that no event has reached yet.
InitIdleController ==
  /\ selectionMode = "none"
  /\ selectedKeys = {}
  /\ anchorKey = Undefined
  /\ focusedKey = Undefined
  /\ isFocused = FALSE
  /\ delegateMethods = {}
  /\ mounted = FALSE
  /\ typeSelect = NoTypeSelect
  /\ ev = NoEvent

Init == InitCollection /\ InitIdleController

Next == NextCollection

Spec == Init /\ [][Next]_vars

(***************************************************************************)
(* Properties of the Collection.                                           *)
(***************************************************************************)
N == Len(items)

HasKey(arr, key) == \E i \in 1..Len(arr) : arr[i].key = key

\* textValue starts with filter, letters compared case-insensitively.
StartsWith(text, filter) ==
  /\ Len(filter) <= Len(text)
  /\ \A i \in 1..Len(filter) : Fold(text[i]) = Fold(filter[i])

\* The index visited at step j (0-based) of the wrap-around order that begins
\* at index start.
WrapIndex(start, j) == (start + j) % N

\* The first index, in wrap-around order from start, of an item whose
\* textValue starts with filter; -1 if there is none.
FirstInWrapOrder(start, filter) ==
  IF \E i \in 1..N : StartsWith(items[i].textValue, filter)
  THEN LET j == CHOOSE j \in 0..(N - 1) :
                  /\ StartsWith(items[WrapIndex(start, j) + 1].textValue, filter)
                  /\ \A h \in 0..(j - 1) :
                        ~StartsWith(items[WrapIndex(start, h) + 1].textValue, filter)
       IN WrapIndex(start, j)
  ELSE 0 - 1

OneCharRepeated(filter) ==
  /\ Len(filter) >= 1
  /\ \A i \in 1..Len(filter) : filter[i] = filter[1]

TextValues == [i \in 1..N |-> items[i].textValue]

\* C1: round trip: for every key k present in the Collection, the item
\* findByKey(k) returns is the very item findByIndex(findIndexByKey(k))
\* returns, and it is an item with key k.
C1_RoundTrip ==
  (call.op = "findByKey" /\ HasKey(items, call.key)) =>
     /\ call.ret = findByIndex(items, findIndexByKey(items, call.key))
     /\ call.ret # Null
     /\ call.ret.key = call.key

\* C1 witness: findByKey was applied to a key that two items of the
\* Collection carry.
C1_Witness ==
  /\ call.op = "findByKey"
  /\ Cardinality({i \in 1..N : items[i].key = call.key}) = 2
  /\ call.ret # Null

\* C2 as claimed: the keys of the Collection are unique and
\* findIndexByKey(findByIndex(i).key) = i for every in-range index i.
C2_KeysUniqueInverse ==
  /\ \A i, j \in 1..N : items[i].key = items[j].key => i = j
  /\ \A i \in 0..(N - 1) : findIndexByKey(items, findByIndex(items, i).key) = i

C4_WitnessNoFallback ==
  /\ call.op = "findIndexBySearch"
  /\ Len(call.filter) = 2
  /\ ~OneCharRepeated(call.filter)
  /\ \A i \in 1..N : ~StartsWith(items[i].textValue, call.filter)
  /\ \E i \in 1..N : StartsWith(items[i].textValue, <<call.filter[1]>>)
  /\ call.ret = 0 - 1

\* C5 as claimed: in [Apple, Banana, Apricot], findIndexBySearch("a", 0) is 0
\* and findIndexBySearch("aa", 0), issued from the index the previous search
\* landed on, is 2.
C5_CyclingFromLanded ==
  (call.op = "findIndexBySearch" /\ TextValues = <<Apple, Banana, Apricot>>) =>
     /\ (call.filter = <<"a">> /\ call.startIndex = 0) => call.ret = 0
     /\ (call.filter = <<"a", "a">> /\ call.startIndex = 0) => call.ret = 2

\* C5 amended: in [Apple, Banana, Apricot], findIndexBySearch("a", 0) is 0,
\* and findIndexBySearch("aa", s) is 2 (Apricot) when s is one past the index
\* the previous search landed on (s = 1); from s = 0 it stays on 0.
C5_CyclingFromNext ==
  (call.op = "findIndexBySearch" /\ TextValues = <<Apple, Banana, Apricot>>) =>
     /\ (call.filter = <<"a">> /\ call.startIndex = 0) => call.ret = 0
     /\ (call.filter = <<"a", "a">> /\ call.startIndex = 1) => call.ret = 2
     /\ (call.filter = <<"a", "a">> /\ call.startIndex = 0) => call.ret = 0

\* C5 witness: "aa" searched from index 1 in [Apple, Banana, Apricot].
C5_Witness ==
  /\ call.op = "findIndexBySearch"
  /\ TextValues = <<Apple, Banana, Apricot>>
  /\ call.filter = <<"a", "a">>
  /\ call.startIndex = 1
  /\ call.ret = 2

\* C6: on an empty Collection getFirstIndex and getLastIndex return -1 and
\* isFirstIndex(i), isLastIndex(i) are false for every i; on n > 0 items
\* getFirstIndex is 0 and getLastIndex is n - 1.
C6_Boundaries ==
  /\ call.op = "getFirstIndex" => call.ret = (IF N = 0 THEN 0 - 1 ELSE 0)
  /\ call.op = "getLastIndex" => call.ret = (IF N = 0 THEN 0 - 1 ELSE N - 1)
  /\ (call.op \in {"isFirstIndex", "isLastIndex"} /\ N = 0) => call.ret = FALSE

\* C6 witness: isFirstIndex(-1) was asked of an empty Collection.
C6_Witness ==
  /\ call.op = "isFirstIndex"
  /\ call.index = 0 - 1
  /\ N = 0
  /\ call.ret = FALSE

\* C7: addItem appends the item and leaves the existing items as they were;
\* removeItem(key) removes the items with the key, keeps the others in their
\* order, and changes nothing when no item has the key.
C7_AddRemoveFrame ==
  /\ call.op = "addItem" =>
       /\ Len(items) = Len(call.before) + 1
       /\ items[Len(items)] = call.item
       /\ \A i \in 1..Len(call.before) : items[i] = call.before[i]
  /\ call.op = "removeItem" =>
       /\ ~HasKey(items, call.key)
       /\ \A i \in 1..Len(call.before) :
            call.before[i].key # call.key => IndexOf(items, call.before[i]) >= 0
       /\ \A i \in 1..N : IndexOf(call.before, items[i]) >= 0
       /\ \A i, j \in 1..N :
            i < j => IndexOf(call.before, items[i]) < IndexOf(call.before, items[j])
       /\ ~HasKey(call.before, call.key) => items = call.before

\* C7 witness: an item was appended to a Collection that held two.
C7_Witness ==
  /\ call.op = "addItem"
  /\ Len(call.before) = 2
  /\ Len(items) = 3

\* C7 second witness: removeItem took the middle item out of three.
C7_WitnessRemove ==
  /\ call.op = "removeItem"
  /\ Len(call.before) = 3
  /\ call.before[2].key = call.key
  /\ items = <<call.before[1], call.before[3]>>

\* C8: findByIndex returns null for every index outside 0..n-1, findByKey
\* returns null for a key not present, findIndexByKey returns -1 for a key
\* not present and for undefined.
C8_Sentinels ==
  /\ (call.op = "findByIndex" /\ call.index \notin 0..(N - 1)) => call.ret = Null
  /\ (call.op = "findByKey" /\ ~HasKey(items, call.key)) => call.ret = Null
  /\ (call.op = "findIndexByKey" /\ (~HasKey(items, call.key) \/ call.key = Undefined)) =>
        call.ret = 0 - 1

\* C8 witness: findByIndex(-1) on a Collection that holds items.
C8_Witness ==
  /\ call.op = "findByIndex"
  /\ call.index = 0 - 1
  /\ N >= 1
  /\ call.ret = Null

(***************************************************************************)
(* KeyboardDelegate: a list delegate over the keys of the Collection, in   *)
(* collection order.  Every method is optional: delegateMethods holds the  *)
(* names of the methods the delegate has.                                  *)
(***************************************************************************)
VerticalMethods == {"getKeyBelow", "getKeyAbove"}

HorizontalMethods == {"getKeyLeftOf", "getKeyRightOf"}

BoundaryMethods == {"getFirstKey", "getLastKey"}

PageMethods == {"getKeyPageBelow", "getKeyPageAbove"}

\* The delegates of the consuming widgets: a grid (every method), a vertical
\* list, a horizontal list, a delegate with the four directions only, and a
\* delegate without methods.
DelegateKinds ==
  { VerticalMethods \cup HorizontalMethods \cup BoundaryMethods \cup PageMethods,
    VerticalMethods \cup BoundaryMethods \cup PageMethods,
    HorizontalMethods \cup BoundaryMethods,
    VerticalMethods \cup HorizontalMethods,
    {} }

Has(method) == method \in delegateMethods

\* The key after `key` in collection order; undefined after the last key.
KeyAfter(key) ==
  LET i == findIndexByKey(items, key)
  IN IF i >= 0 /\ i + 1 < Len(items) THEN items[i + 2].key ELSE Undefined

\* The key before `key` in collection order; undefined before the first key.
KeyBefore(key) ==
  LET i == findIndexByKey(items, key)
  IN IF i >= 1 THEN items[i].key ELSE Undefined

getKeyBelow(key) == KeyAfter(key)

getKeyAbove(key) == KeyBefore(key)

getKeyRightOf(key) == KeyAfter(key)

getKeyLeftOf(key) == KeyBefore(key)

getFirstKey == IF Len(items) = 0 THEN Undefined ELSE items[1].key

getLastKey == IF Len(items) = 0 THEN Undefined ELSE items[Len(items)].key

\* The list fits in one page.
getKeyPageBelow(key) == IF key = getLastKey THEN Undefined ELSE getLastKey

getKeyPageAbove(key) == IF key = getFirstKey THEN Undefined ELSE getFirstKey

\* delegate.getFirstKey?.() and delegate.getLastKey?.()
OptFirstKey == IF Has("getFirstKey") THEN getFirstKey ELSE Undefined

OptLastKey == IF Has("getLastKey") THEN getLastKey ELSE Undefined

\* The keys from a to b in collection order, both included, whichever comes
\* first.
KeyRange(a, b) ==
  LET i == findIndexByKey(items, a)
      j == findIndexByKey(items, b)
  IN IF i < 0 \/ j < 0 THEN {b}
     ELSE {items[h + 1].key : h \in Min(i, j)..Max(i, j)}

AllKeys == {items[i].key : i \in 1..Len(items)}

(***************************************************************************)
(* SelectionManager: the operations the controller calls.                  *)
(***************************************************************************)
SelectionModes == {"none", "single", "multiple"}

\* manager.replaceSelection(key)
ReplaceSelection(key) ==
  IF selectionMode = "none"
  THEN UNCHANGED <<selectedKeys, anchorKey>>
  ELSE /\ selectedKeys' = {key}
       /\ anchorKey' = key

\* manager.extendSelection(toKey): the contiguous range from the anchor to
\* toKey joins the selection.  Without an anchor the range starts at the key
\* that had the focus before toKey got it: the controller always calls
\* setFocusedKey(toKey) right before, so that key is the focusedKey the
\* handler found.
ExtendSelection(toKey) ==
  IF selectionMode = "none"
  THEN UNCHANGED <<selectedKeys, anchorKey>>
  ELSE IF selectionMode = "single"
       THEN ReplaceSelection(toKey)
       ELSE LET anchor == IF anchorKey # Undefined THEN anchorKey
                          ELSE IF focusedKey # Undefined THEN focusedKey ELSE toKey
            IN /\ selectedKeys' = selectedKeys \cup KeyRange(anchor, toKey)
               /\ anchorKey' = anchor

\* manager.selectAll()
SelectAll ==
  IF selectionMode = "multiple"
  THEN /\ selectedKeys' = AllKeys
       /\ UNCHANGED anchorKey
  ELSE UNCHANGED <<selectedKeys, anchorKey>>

\* manager.clearSelection()
ClearSelection ==
  /\ selectedKeys' = {}
  /\ anchorKey' = Undefined

\* The indexes of the selected keys in collection order.
SelectedIndexes == {i \in 1..Len(items) : items[i].key \in selectedKeys}

\* manager.firstSelectedKey()
firstSelectedKey ==
  IF SelectedIndexes = {} THEN Undefined
  ELSE items[CHOOSE i \in SelectedIndexes : \A j \in SelectedIndexes : i <= j].key

\* manager.lastSelectedKey()
lastSelectedKey ==
  IF SelectedIndexes = {} THEN Undefined
  ELSE items[CHOOSE i \in SelectedIndexes : \A j \in SelectedIndexes : i >= j].key

\* a ?? b
Nullish(a, b) == IF a # Undefined THEN a ELSE b

(***************************************************************************)
(* The calls a handler makes on the manager, in the order it makes them.   *)
(***************************************************************************)
CallSetFocusedKey(key, childFocus) ==
  [op |-> "setFocusedKey", key |-> key, childFocus |-> childFocus]

CallSetFocused(value) == [op |-> "setFocused", value |-> value]

CallExtendSelection(key) == [op |-> "extendSelection", key |-> key]

CallReplaceSelection(key) == [op |-> "replaceSelection", key |-> key]

CallSelectAll == [op |-> "selectAll"]

CallClearSelection == [op |-> "clearSelection"]

\* The positions of the calls of operation op in calls.
CallsOf(calls, op) == {i \in 1..Len(calls) : calls[i].op = op}

\* The last call of operation op in calls.
LastCallOf(calls, op) ==
  calls[CHOOSE i \in CallsOf(calls, op) : \A j \in CallsOf(calls, op) : i >= j]

\* The selection after the calls, as Perform leaves it.
SelectedKeysAfter(calls) ==
  IF CallsOf(calls, "extendSelection") # {}
  THEN LET toKey == LastCallOf(calls, "extendSelection").key
           anchor == IF anchorKey # Undefined THEN anchorKey
                     ELSE IF focusedKey # Undefined THEN focusedKey ELSE toKey
       IN IF selectionMode = "none" THEN selectedKeys
          ELSE IF selectionMode = "single" THEN {toKey}
               ELSE selectedKeys \cup KeyRange(anchor, toKey)
  ELSE IF CallsOf(calls, "replaceSelection") # {}
       THEN IF selectionMode = "none" THEN selectedKeys
            ELSE {LastCallOf(calls, "replaceSelection").key}
       ELSE IF CallsOf(calls, "selectAll") # {}
            THEN IF selectionMode = "multiple" THEN AllKeys ELSE selectedKeys
            ELSE IF CallsOf(calls, "clearSelection") # {}
                 THEN {}
                 ELSE selectedKeys

\* The focused key after the calls, as Perform leaves it.
FocusedKeyAfter(calls) ==
  IF CallsOf(calls, "setFocusedKey") # {}
  THEN LastCallOf(calls, "setFocusedKey").key ELSE focusedKey

\* What a reactive observer of the manager sees while a handler runs: the
\* handler makes its calls one after the other, outside of any batch, so
\* each call is a write of its own and the observer runs after each of them.
Observed(calls) ==
  [i \in 1..Len(calls) |->
     [focusedKey |-> FocusedKeyAfter(SubSeq(calls, 1, i)),
      selectedKeys |-> SelectedKeysAfter(SubSeq(calls, 1, i))]]

\* The manager after the calls of one handler.  A handler calls setFocused
\* and setFocusedKey at most once each and changes the selection with at most
\* one operation; these write different parts of the manager.
Perform(calls) ==
  /\ focusedKey' = IF CallsOf(calls, "setFocusedKey") # {}
                   THEN LastCallOf(calls, "setFocusedKey").key ELSE focusedKey
  /\ isFocused' = IF CallsOf(calls, "setFocused") # {}
                  THEN LastCallOf(calls, "setFocused").value ELSE isFocused
  /\ IF CallsOf(calls, "extendSelection") # {}
     THEN ExtendSelection(LastCallOf(calls, "extendSelection").key)
     ELSE IF CallsOf(calls, "replaceSelection") # {}
          THEN ReplaceSelection(LastCallOf(calls, "replaceSelection").key)
          ELSE IF CallsOf(calls, "selectAll") # {}
               THEN SelectAll
               ELSE IF CallsOf(calls, "clearSelection") # {}
                    THEN ClearSelection
                    ELSE UNCHANGED <<selectedKeys, anchorKey>>

(***************************************************************************)
(* Keyboard events.                                                        *)
(***************************************************************************)
\* utils.ts isCtrlKeyPressed(e)
isCtrlKeyPressed(e) == e.ctrlKey

\* utils.ts isNonContiguousSelectionModifier(e)
isNonContiguousSelectionModifier(e) == e.ctrlKey

\* A keydown event on `key` whose target is inside the container.
KeyDownEvents(key) ==
  [type : {"keydown"}, key : {key}, shiftKey : BOOLEAN, ctrlKey : BOOLEAN, altKey : BOOLEAN]

\* The props read at the top of onKeyDown.
KeyDownProps == [shouldFocusWrap : BOOLEAN, selectOnFocus : BOOLEAN]

\* The props for the keys whose case does not use shouldFocusWrap: one value
\* of it is enough.
PropsWithoutWrap == {props \in KeyDownProps : ~props.shouldFocusWrap}

\* The props for the keys whose case uses neither of the two.
PropsUnused == {props \in KeyDownProps : ~props.shouldFocusWrap /\ ~props.selectOnFocus}

\* locale().direction
Directions == {"ltr", "rtl"}

\* What a handled keydown leaves for inspection: the event, the props and the
\* text direction it read ("unread" when the key does not consult the locale),
\* the manager state it found, whether it prevented the default, the key and
\* child focus strategy it navigated to and the calls it made on the manager.
Handled(e, props, direction, prevented, target, childFocus, calls) ==
  [type |-> "keydown", key |-> e.key, shiftKey |-> e.shiftKey, ctrlKey |-> e.ctrlKey,
   altKey |-> e.altKey, shouldFocusWrap |-> props.shouldFocusWrap,
   selectOnFocus |-> props.selectOnFocus, direction |-> direction,
   defaultPrevented |-> prevented, nextKey |-> target, childFocus |-> childFocus,
   isFocusedBefore |-> isFocused, focusedKeyBefore |-> focusedKey,
   selectedKeysBefore |-> selectedKeys, anchorKeyBefore |-> anchorKey, calls |-> calls,
   observed |-> Observed(calls)]

\* Mutant of navigateToKey: the non-contiguous selection modifier is not
\* consulted, selectOnFocus alone decides the replacement.
navigateToKey_ignoreModifier(key, childFocus, e, props) ==
  IF key # Undefined
  THEN <<CallSetFocusedKey(key, childFocus)>> \o
       (IF e.shiftKey /\ selectionMode = "multiple"
        THEN <<CallExtendSelection(key)>>
        ELSE IF props.selectOnFocus
             THEN <<CallReplaceSelection(key)>>
             ELSE <<>>)
  ELSE <<>>

\* Mutant of navigateToKey: Shift does not extend, the selection follows
\* selectOnFocus only.
navigateToKey_shiftReplaces(key, childFocus, e, props) ==
  IF key # Undefined
  THEN <<CallSetFocusedKey(key, childFocus)>> \o
       (IF props.selectOnFocus /\ ~isNonContiguousSelectionModifier(e)
        THEN <<CallReplaceSelection(key)>>
        ELSE <<>>)
  ELSE <<>>

\* Mutant of navigateToKey: Shift extends whatever the selection mode.
navigateToKey_extendAnyMode(key, childFocus, e, props) ==
  IF key # Undefined
  THEN <<CallSetFocusedKey(key, childFocus)>> \o
       (IF e.shiftKey
        THEN <<CallExtendSelection(key)>>
        ELSE IF props.selectOnFocus /\ ~isNonContiguousSelectionModifier(e)
             THEN <<CallReplaceSelection(key)>>
             ELSE <<>>)
  ELSE <<>>

\* Mutant of navigateToKey: the key is not tested, an undefined key is
\* focused like any other.
navigateToKey_noNullTest(key, childFocus, e, props) ==
  <<CallSetFocusedKey(key, childFocus)>> \o
  (IF e.shiftKey /\ selectionMode = "multiple"
   THEN <<CallExtendSelection(key)>>
   ELSE IF props.selectOnFocus /\ ~isNonContiguousSelectionModifier(e)
        THEN <<CallReplaceSelection(key)>>
        ELSE <<>>)

\* navigateToKey(key, childFocus): the calls it makes on the manager.
navigateToKey(key, childFocus, e, props) ==
  IF key # Undefined
  THEN <<CallSetFocusedKey(key, childFocus)>> \o
       (IF e.shiftKey /\ selectionMode = "multiple"
        THEN <<CallExtendSelection(key)>>
        ELSE IF props.selectOnFocus /\ ~isNonContiguousSelectionModifier(e)
             THEN <<CallReplaceSelection(key)>>
             ELSE <<>>)
  ELSE <<>>

\* A keydown handler is dispatched on a mounted controller and leaves the
\* collection, the selection mode and the delegate alone.
KeyDownFrame ==
  /\ mounted
  /\ UNCHANGED <<items, call, selectionMode, delegateMethods, mounted, typeSelect>>

(***************************************************************************)
(* createSelectableCollection: onKeyDown, one action per key of the        *)
(* switch, for an event whose target is inside the container.              *)
(***************************************************************************)
\* Mutant of OnKeyDownArrowDown: shouldFocusWrap is not consulted, the first
\* key is always tried when there is no key below.
OnKeyDownArrowDown_alwaysWrap(e, props) ==
  /\ ev = NoEvent
  /\ KeyDownFrame
  /\ IF Has("getKeyBelow")
     THEN LET below == IF focusedKey # Undefined THEN getKeyBelow(focusedKey) ELSE OptFirstKey
              nextKey == IF below = Undefined THEN OptFirstKey ELSE below
              calls == navigateToKey(nextKey, Undefined, e, props)
          IN /\ Perform(calls)
             /\ ev' = Handled(e, props, "unread", TRUE, nextKey, Undefined, calls)
     ELSE /\ Perform(<<>>)
          /\ ev' = Handled(e, props, "unread", FALSE, Undefined, Undefined, <<>>)

OnKeyDownArrowDown(e, props) ==
  /\ ev = NoEvent
  /\ KeyDownFrame
  /\ IF Has("getKeyBelow")
     THEN LET below == IF focusedKey # Undefined THEN getKeyBelow(focusedKey) ELSE OptFirstKey
              nextKey == IF below = Undefined /\ props.shouldFocusWrap
                         THEN OptFirstKey ELSE below
              calls == navigateToKey(nextKey, Undefined, e, props)
          IN /\ Perform(calls)
             /\ ev' = Handled(e, props, "unread", TRUE, nextKey, Undefined, calls)
     ELSE /\ Perform(<<>>)
          /\ ev' = Handled(e, props, "unread", FALSE, Undefined, Undefined, <<>>)

OnKeyDownArrowUp(e, props) ==
  /\ ev = NoEvent
  /\ KeyDownFrame
  /\ IF Has("getKeyAbove")
     THEN LET above == IF focusedKey # Undefined THEN getKeyAbove(focusedKey) ELSE OptLastKey
              nextKey == IF above = Undefined /\ props.shouldFocusWrap
                         THEN OptLastKey ELSE above
              calls == navigateToKey(nextKey, Undefined, e, props)
          IN /\ Perform(calls)
             /\ ev' = Handled(e, props, "unread", TRUE, nextKey, Undefined, calls)
     ELSE /\ Perform(<<>>)
          /\ ev' = Handled(e, props, "unread", FALSE, Undefined, Undefined, <<>>)

\* Mutant of OnKeyDownArrowLeft: the text direction is not consulted.
OnKeyDownArrowLeft_ltrOnly(e, props, direction) ==
  /\ ev = NoEvent
  /\ KeyDownFrame
  /\ IF Has("getKeyLeftOf")
     THEN LET nextKey == IF focusedKey # Undefined THEN getKeyLeftOf(focusedKey)
                         ELSE OptLastKey
              calls == navigateToKey(nextKey, "last", e, props)
          IN /\ Perform(calls)
             /\ ev' = Handled(e, props, direction, TRUE, nextKey,
                              IF nextKey # Undefined THEN "last" ELSE Undefined, calls)
     ELSE /\ Perform(<<>>)
          /\ ev' = Handled(e, props, "unread", FALSE, Undefined, Undefined, <<>>)

OnKeyDownArrowLeft(e, props, direction) ==
  /\ ev = NoEvent
  /\ KeyDownFrame
  /\ IF Has("getKeyLeftOf")
     THEN LET isRTL == direction = "rtl"
              nextKey == IF focusedKey # Undefined THEN getKeyLeftOf(focusedKey)
                         ELSE IF isRTL THEN OptFirstKey ELSE OptLastKey
              childFocus == IF isRTL THEN "first" ELSE "last"
              calls == navigateToKey(nextKey, childFocus, e, props)
          IN /\ Perform(calls)
             /\ ev' = Handled(e, props, direction, TRUE, nextKey,
                              IF nextKey # Undefined THEN childFocus ELSE Undefined, calls)
     ELSE /\ Perform(<<>>)
          /\ ev' = Handled(e, props, "unread", FALSE, Undefined, Undefined, <<>>)

OnKeyDownArrowRight(e, props, direction) ==
  /\ ev = NoEvent
  /\ KeyDownFrame
  /\ IF Has("getKeyRightOf")
     THEN LET isRTL == direction = "rtl"
              nextKey == IF focusedKey # Undefined THEN getKeyRightOf(focusedKey)
                         ELSE IF isRTL THEN OptLastKey ELSE OptFirstKey
              childFocus == IF isRTL THEN "last" ELSE "first"
              calls == navigateToKey(nextKey, childFocus, e, props)
          IN /\ Perform(calls)
             /\ ev' = Handled(e, props, direction, TRUE, nextKey,
                              IF nextKey # Undefined THEN childFocus ELSE Undefined, calls)
     ELSE /\ Perform(<<>>)
          /\ ev' = Handled(e, props, "unread", FALSE, Undefined, Undefined, <<>>)

\* Mutant of JumpToBoundary: the selection follows the navigateToKey policy
\* (Shift alone extends, Ctrl keeps the selection).
JumpToBoundary_asNavigate(e, props, hasMethod, boundaryKey) ==
  IF hasMethod
  THEN LET calls == navigateToKey(boundaryKey, Undefined, e, props)
       IN /\ Perform(calls)
          /\ ev' = Handled(e, props, "unread", TRUE, boundaryKey, Undefined, calls)
  ELSE /\ Perform(<<>>)
       /\ ev' = Handled(e, props, "unread", FALSE, Undefined, Undefined, <<>>)

\* Mutant of JumpToBoundary: the case is not guarded by the delegate method.
JumpToBoundary_unguarded(e, props, hasMethod, boundaryKey) ==
  LET calls ==
        IF boundaryKey # Undefined
        THEN <<CallSetFocusedKey(boundaryKey, Undefined)>> \o
             (IF isCtrlKeyPressed(e) /\ e.shiftKey /\ selectionMode = "multiple"
              THEN <<CallExtendSelection(boundaryKey)>>
              ELSE IF props.selectOnFocus
                   THEN <<CallReplaceSelection(boundaryKey)>>
                   ELSE <<>>)
        ELSE <<>>
  IN /\ Perform(calls)
     /\ ev' = Handled(e, props, "unread", TRUE, boundaryKey, Undefined, calls)

\* The Home and End cases: jump to boundaryKey when the delegate has the
\* method.
JumpToBoundary(e, props, hasMethod, boundaryKey) ==
  IF hasMethod
  THEN LET calls ==
             IF boundaryKey # Undefined
             THEN <<CallSetFocusedKey(boundaryKey, Undefined)>> \o
                  (IF isCtrlKeyPressed(e) /\ e.shiftKey /\ selectionMode = "multiple"
                   THEN <<CallExtendSelection(boundaryKey)>>
                   ELSE IF props.selectOnFocus
                        THEN <<CallReplaceSelection(boundaryKey)>>
                        ELSE <<>>)
             ELSE <<>>
       IN /\ Perform(calls)
          /\ ev' = Handled(e, props, "unread", TRUE, boundaryKey, Undefined, calls)
  ELSE /\ Perform(<<>>)
       /\ ev' = Handled(e, props, "unread", FALSE, Undefined, Undefined, <<>>)

OnKeyDownHome(e, props) ==
  /\ ev = NoEvent
  /\ KeyDownFrame
  /\ JumpToBoundary(e, props, Has("getFirstKey"), getFirstKey)

OnKeyDownEnd(e, props) ==
  /\ ev = NoEvent
  /\ KeyDownFrame
  /\ JumpToBoundary(e, props, Has("getLastKey"), getLastKey)

\* Mutant of OnKeyDownPageDown: the page is turned without a focused key too.
OnKeyDownPageDown_unfocused(e, props) ==
  /\ ev = NoEvent
  /\ KeyDownFrame
  /\ IF Has("getKeyPageBelow")
     THEN LET nextKey == getKeyPageBelow(focusedKey)
              calls == navigateToKey(nextKey, Undefined, e, props)
          IN /\ Perform(calls)
             /\ ev' = Handled(e, props, "unread", TRUE, nextKey, Undefined, calls)
     ELSE /\ Perform(<<>>)
          /\ ev' = Handled(e, props, "unread", FALSE, Undefined, Undefined, <<>>)

OnKeyDownPageDown(e, props) ==
  /\ ev = NoEvent
  /\ KeyDownFrame
  /\ IF Has("getKeyPageBelow") /\ focusedKey # Undefined
     THEN LET nextKey == getKeyPageBelow(focusedKey)
              calls == navigateToKey(nextKey, Undefined, e, props)
          IN /\ Perform(calls)
             /\ ev' = Handled(e, props, "unread", TRUE, nextKey, Undefined, calls)
     ELSE /\ Perform(<<>>)
          /\ ev' = Handled(e, props, "unread", FALSE, Undefined, Undefined, <<>>)

OnKeyDownPageUp(e, props) ==
  /\ ev = NoEvent
  /\ KeyDownFrame
  /\ IF Has("getKeyPageAbove") /\ focusedKey # Undefined
     THEN LET nextKey == getKeyPageAbove(focusedKey)
              calls == navigateToKey(nextKey, Undefined, e, props)
          IN /\ Perform(calls)
             /\ ev' = Handled(e, props, "unread", TRUE, nextKey, Undefined, calls)
     ELSE /\ Perform(<<>>)
          /\ ev' = Handled(e, props, "unread", FALSE, Undefined, Undefined, <<>>)

\* Mutant of OnKeyDownA: disallowSelectAll is not consulted.
OnKeyDownA_ignoreDisallow(e, props, disallowSelectAll) ==
  /\ ev = NoEvent
  /\ KeyDownFrame
  /\ IF isCtrlKeyPressed(e) /\ selectionMode = "multiple"
     THEN /\ Perform(<<CallSelectAll>>)
          /\ ev' = Handled(e, props, "unread", TRUE, Undefined, Undefined, <<CallSelectAll>>)
                     @@ [disallowSelectAll |-> disallowSelectAll]
     ELSE /\ Perform(<<>>)
          /\ ev' = Handled(e, props, "unread", FALSE, Undefined, Undefined, <<>>)
                     @@ [disallowSelectAll |-> disallowSelectAll]

\* case "a"; disallowSelectAll is the prop read by this case.
OnKeyDownA(e, props, disallowSelectAll) ==
  /\ ev = NoEvent
  /\ KeyDownFrame
  /\ IF isCtrlKeyPressed(e) /\ selectionMode = "multiple" /\ disallowSelectAll # TRUE
     THEN /\ Perform(<<CallSelectAll>>)
          /\ ev' = Handled(e, props, "unread", TRUE, Undefined, Undefined, <<CallSelectAll>>)
                     @@ [disallowSelectAll |-> disallowSelectAll]
     ELSE /\ Perform(<<>>)
          /\ ev' = Handled(e, props, "unread", FALSE, Undefined, Undefined, <<>>)
                     @@ [disallowSelectAll |-> disallowSelectAll]

\* Mutant of OnKeyDownEscape: disallowEmptySelection is not consulted.
OnKeyDownEscape_alwaysClear(e, props, disallowEmptySelection) ==
  /\ ev = NoEvent
  /\ KeyDownFrame
  /\ Perform(<<CallClearSelection>>)
  /\ ev' = Handled(e, props, "unread", TRUE, Undefined, Undefined, <<CallClearSelection>>)
             @@ [disallowEmptySelection |-> disallowEmptySelection]

\* case "Escape"; disallowEmptySelection is the prop read by this case.
OnKeyDownEscape(e, props, disallowEmptySelection) ==
  /\ ev = NoEvent
  /\ KeyDownFrame
  /\ LET calls == IF ~disallowEmptySelection THEN <<CallClearSelection>> ELSE <<>>
     IN /\ Perform(calls)
        /\ ev' = Handled(e, props, "unread", TRUE, Undefined, Undefined, calls)
                   @@ [disallowEmptySelection |-> disallowEmptySelection]

\* A key the switch has no case for.
OnKeyDownOther(e, props) ==
  /\ ev = NoEvent
  /\ KeyDownFrame
  /\ Perform(<<>>)
  /\ ev' = Handled(e, props, "unread", FALSE, Undefined, Undefined, <<>>)

(***************************************************************************)
(* The Tab case of onKeyDown and the DOM it walks.  The descendants of the *)
(* container are the elements of the items, in collection order, and       *)
(* "inner", an element that can take the focus but is not tabbable, inside *)
(* the last tabbable item element.                                         *)
(***************************************************************************)
\* The elements the event target (document.activeElement) can be, given
\* the set of tabbable item elements.
ActiveElements(tabbable) ==
  {"container"} \cup AllKeys \cup (IF tabbable = {} THEN {} ELSE {"inner"})

\* The element the walker loop ends on: the last tabbable descendant in
\* document order, undefined when no descendant is tabbable.
LastTabbable(tabbable) ==
  IF tabbable = {} THEN Undefined
  ELSE LET indexes == {i \in 1..Len(items) : items[i].key \in tabbable}
       IN items[CHOOSE i \in indexes : \A j \in indexes : i >= j].key

\* The first tabbable descendant in document order.
FirstTabbable(tabbable) ==
  IF tabbable = {} THEN Undefined
  ELSE LET indexes == {i \in 1..Len(items) : items[i].key \in tabbable}
       IN items[CHOOSE i \in indexes : \A j \in indexes : i <= j].key

\* next.contains(element)
Contains(next, element, tabbable) ==
  \/ element = next
  \/ element = "inner" /\ next = LastTabbable(tabbable)

\* What the Tab case leaves for inspection: the keydown record, the prop and
\* the DOM it read, and the element that has the DOM focus afterwards.
HandledTab(e, props, allowsTabNavigation, tabbable, activeElement, domFocus) ==
  Handled(e, props, "unread", e.altKey, Undefined, Undefined, <<>>)
    @@ [allowsTabNavigation |-> allowsTabNavigation, tabbable |-> tabbable,
        activeElement |-> activeElement, domFocus |-> domFocus]

\* Mutant of OnKeyDownTab: the walker stops on the first tabbable descendant.
OnKeyDownTab_firstTabbable(e, props, allowsTabNavigation, tabbable, activeElement) ==
  /\ ev = NoEvent
  /\ KeyDownFrame
  /\ Perform(<<>>)
  /\ LET next == FirstTabbable(tabbable)
         domFocus == IF allowsTabNavigation THEN activeElement
                     ELSE IF e.shiftKey THEN "container"
                          ELSE IF next # Undefined /\ ~Contains(next, activeElement, tabbable)
                               THEN next ELSE activeElement
     IN ev' = HandledTab(e, props, allowsTabNavigation, tabbable, activeElement, domFocus)

\* case "Tab".  Alt+Tab has its default prevented before the switch; the case
\* itself prevents nothing and calls nothing on the manager.
OnKeyDownTab(e, props, allowsTabNavigation, tabbable, activeElement) ==
  /\ ev = NoEvent
  /\ KeyDownFrame
  /\ Perform(<<>>)
  /\ LET next == LastTabbable(tabbable)
         domFocus == IF allowsTabNavigation THEN activeElement
                     ELSE IF e.shiftKey THEN "container"
                          ELSE IF next # Undefined /\ ~Contains(next, activeElement, tabbable)
                               THEN next ELSE activeElement
     IN ev' = HandledTab(e, props, allowsTabNavigation, tabbable, activeElement, domFocus)

(***************************************************************************)
(* createSelectableCollection: onFocusIn, onFocusOut, onMount.             *)
(***************************************************************************)
\* Where e.relatedTarget of a focusin lies: there is none, it precedes the
\* container in document order, or compareDocumentPosition reports it as
\* following (it comes after the container or lies inside it).
RelatedTargets == {"none", "preceding", "following"}

\* What a handled focus or mount event leaves for inspection.
Focused(type, input, calls, domFocus) ==
  [type |-> type, input |-> input, isFocusedBefore |-> isFocused,
   focusedKeyBefore |-> focusedKey, selectedKeysBefore |-> selectedKeys,
   anchorKeyBefore |-> anchorKey, calls |-> calls, domFocus |-> domFocus]

FocusFrame ==
  /\ mounted
  /\ UNCHANGED <<items, call, selectionMode, delegateMethods, mounted, typeSelect>>

\* navigateToFirstKey(key) of onFocusIn
navigateToFirstKey(key, selectOnFocus) ==
  IF key = Undefined THEN <<>>
  ELSE <<CallSetFocusedKey(key, Undefined)>> \o
       (IF selectOnFocus THEN <<CallReplaceSelection(key)>> ELSE <<>>)

\* Mutant of onFocusIn: the first key is taken when the related target
\* follows the container and the last key otherwise.
onFocusIn_swapped(targetInside, relatedTarget, selectOnFocus) ==
  IF isFocused
  THEN IF ~targetInside THEN <<CallSetFocused(FALSE)>> ELSE <<>>
  ELSE IF ~targetInside
       THEN <<>>
       ELSE <<CallSetFocused(TRUE)>> \o
            (IF focusedKey = Undefined
             THEN IF relatedTarget = "following"
                  THEN navigateToFirstKey(Nullish(firstSelectedKey, OptFirstKey), selectOnFocus)
                  ELSE navigateToFirstKey(Nullish(lastSelectedKey, OptLastKey), selectOnFocus)
             ELSE <<>>)

\* Mutant of onFocusIn: a focusin whose target is outside the container
\* focuses an unfocused manager.
onFocusIn_portalFocuses(targetInside, relatedTarget, selectOnFocus) ==
  IF isFocused
  THEN IF ~targetInside THEN <<CallSetFocused(FALSE)>> ELSE <<>>
  ELSE <<CallSetFocused(TRUE)>> \o
       (IF focusedKey = Undefined /\ targetInside
        THEN IF relatedTarget = "following"
             THEN navigateToFirstKey(Nullish(lastSelectedKey, OptLastKey), selectOnFocus)
             ELSE navigateToFirstKey(Nullish(firstSelectedKey, OptFirstKey), selectOnFocus)
        ELSE <<>>)

\* onFocusIn: the calls it makes on the manager.  targetInside is
\* e.currentTarget.contains(e.target).
onFocusIn(targetInside, relatedTarget, selectOnFocus) ==
  IF isFocused
  THEN IF ~targetInside THEN <<CallSetFocused(FALSE)>> ELSE <<>>
  ELSE IF ~targetInside
       THEN <<>>
       ELSE <<CallSetFocused(TRUE)>> \o
            (IF focusedKey = Undefined
             THEN IF relatedTarget = "following"
                  THEN navigateToFirstKey(Nullish(lastSelectedKey, OptLastKey), selectOnFocus)
                  ELSE navigateToFirstKey(Nullish(firstSelectedKey, OptFirstKey), selectOnFocus)
             ELSE <<>>)

\* onFocusIn as an event: besides the manager calls, a first focusin that
\* finds a focused key in a non-virtualized collection moves the DOM focus to
\* the element of that key.
OnFocusIn(targetInside, relatedTarget, selectOnFocus, isVirtualized) ==
  /\ ev = NoEvent
  /\ FocusFrame
  /\ LET calls == onFocusIn(targetInside, relatedTarget, selectOnFocus)
         domFocus == IF ~isFocused /\ targetInside /\ focusedKey # Undefined /\ ~isVirtualized
                     THEN focusedKey ELSE Undefined
     IN /\ Perform(calls)
        /\ ev' = Focused("focusin",
                         [targetInside |-> targetInside, relatedTarget |-> relatedTarget,
                          selectOnFocus |-> selectOnFocus, isVirtualized |-> isVirtualized],
                         calls, domFocus)

\* Mutant of OnFocusOut: the manager is unfocused wherever the focus goes.
OnFocusOut_always(relatedInside) ==
  /\ ev = NoEvent
  /\ FocusFrame
  /\ Perform(<<CallSetFocused(FALSE)>>)
  /\ ev' = Focused("focusout", [relatedInside |-> relatedInside],
                   <<CallSetFocused(FALSE)>>, Undefined)

\* onFocusOut; relatedInside is e.currentTarget.contains(e.relatedTarget).
OnFocusOut(relatedInside) ==
  /\ ev = NoEvent
  /\ FocusFrame
  /\ LET calls == IF ~relatedInside THEN <<CallSetFocused(FALSE)>> ELSE <<>>
     IN /\ Perform(calls)
        /\ ev' = Focused("focusout", [relatedInside |-> relatedInside], calls, Undefined)

\* The values of props.autoFocus: false or absent, true, "first", "last".
AutoFocusValues == {"false", "true", "first", "last"}

\* What becomes of the focusin that focusSafely(refEl) raises on the
\* container: it reaches onFocusIn while onMount runs (with the related
\* target and the selectOnFocus prop that handler then reads), or it does not
\* (the focus is deferred or the element cannot take it).
MountFocusIns ==
  {[handled |-> FALSE, relatedTarget |-> "none", selectOnFocus |-> FALSE]}
    \cup [handled : {TRUE}, relatedTarget : RelatedTargets, selectOnFocus : BOOLEAN]

\* Mutant of MountKey: the focus strategy wins over the selection.
MountKey_strategyFirst(autoFocus, firstInSet) ==
  LET boundary == IF autoFocus = "first" THEN OptFirstKey
                  ELSE IF autoFocus = "last" THEN OptLastKey ELSE Undefined
  IN IF boundary # Undefined THEN boundary
     ELSE IF selectedKeys # {} THEN firstInSet ELSE Undefined

\* The key onMount resolves.  firstInSet is the key
\* selectedKeys.values().next().value gives: the selection is a Set, whose
\* first element is the one that was put into it first.
MountKey(autoFocus, firstInSet) ==
  LET boundary == IF autoFocus = "first" THEN OptFirstKey
                  ELSE IF autoFocus = "last" THEN OptLastKey ELSE Undefined
  IN IF selectedKeys # {} THEN firstInSet ELSE boundary

\* onMount.  The container gets the DOM focus (focusSafely(refEl)) when no
\* key is to be focused and the focus is not virtual; the focusin this raises
\* is handled by onFocusIn.
OnMount(autoFocus, shouldUseVirtualFocus, firstInSet, focusIn) ==
  /\ ev = NoEvent
  /\ ~mounted
  /\ mounted' = TRUE
  /\ UNCHANGED <<items, call, selectionMode, delegateMethods, typeSelect>>
  /\ LET input == [autoFocus |-> autoFocus, shouldUseVirtualFocus |-> shouldUseVirtualFocus,
                   firstInSet |-> firstInSet, focusIn |-> focusIn]
     IN IF autoFocus = "false"
        THEN /\ Perform(<<>>)
             /\ ev' = Focused("mount", input, <<>>, Undefined)
        ELSE LET key == MountKey(autoFocus, firstInSet)
                 domFocus == IF key = Undefined /\ ~shouldUseVirtualFocus
                             THEN "container" ELSE Undefined
                 calls == IF key # Undefined
                          THEN <<CallSetFocused(TRUE), CallSetFocusedKey(key, Undefined)>>
                          ELSE IF domFocus = "container" /\ focusIn.handled
                               THEN onFocusIn(TRUE, focusIn.relatedTarget, focusIn.selectOnFocus)
                               ELSE <<>>
             IN /\ Perform(calls)
                /\ ev' = Focused("mount", input, calls, domFocus)

\* Mutant of tabIndex: the container is the tab stop while the collection
\* does not have the focus.
tabIndex_byFocus(shouldUseVirtualFocus) ==
  IF ~shouldUseVirtualFocus
  THEN <<IF ~isFocused THEN 0 ELSE -1>>
  ELSE <<>>

\* The tabIndex of collectionProps, as the sequence of the values the
\* property holds: none when the property is left undefined.
tabIndex(shouldUseVirtualFocus) ==
  IF ~shouldUseVirtualFocus
  THEN <<IF focusedKey = Undefined THEN 0 ELSE -1>>
  ELSE <<>>

\* The event has been dealt with; the next one can be dispatched.
EventDone ==
  /\ ev # NoEvent
  /\ ev' = NoEvent
  /\ UNCHANGED <<items, call, managerVars, delegateMethods, mounted, typeSelect>>

(***************************************************************************)
(* The controller over a collection of items with distinct keys.           *)
(***************************************************************************)
ListItems == <<Item("k1", Apple, 1), Item("k2", Banana, 2), Item("k3", Apricot, 3)>>

\* The selections a manager can be created with in each mode.
InitialSelections ==
  IF selectionMode = "none" THEN {{}}
  ELSE IF selectionMode = "single" THEN {{}} \cup {{k} : k \in AllKeys}
       ELSE SUBSET AllKeys

InitController ==
  /\ \E n \in 0..Min(MaxItems, Len(ListItems)) : items = SubSeq(ListItems, 1, n)
  /\ call = NoCall
  /\ selectionMode \in SelectionModes
  /\ selectedKeys \in InitialSelections
  /\ anchorKey = Undefined
  /\ focusedKey = Undefined
  /\ isFocused = FALSE
  /\ delegateMethods \in DelegateKinds
  /\ mounted = FALSE
  /\ typeSelect = NoTypeSelect
  /\ ev = NoEvent

NextController ==
  \/ \E e \in KeyDownEvents("ArrowDown"), props \in KeyDownProps : OnKeyDownArrowDown(e, props)
  \/ \E e \in KeyDownEvents("ArrowUp"), props \in KeyDownProps : OnKeyDownArrowUp(e, props)
  \/ \E e \in KeyDownEvents("ArrowLeft"), props \in KeyDownProps, direction \in Directions :
        OnKeyDownArrowLeft(e, props, direction)
  \/ \E e \in KeyDownEvents("ArrowRight"), props \in KeyDownProps, direction \in Directions :
        OnKeyDownArrowRight(e, props, direction)
  \/ \E e \in KeyDownEvents("Home"), props \in PropsWithoutWrap : OnKeyDownHome(e, props)
  \/ \E e \in KeyDownEvents("End"), props \in PropsWithoutWrap : OnKeyDownEnd(e, props)
  \/ \E e \in KeyDownEvents("PageDown"), props \in PropsWithoutWrap : OnKeyDownPageDown(e, props)
  \/ \E e \in KeyDownEvents("PageUp"), props \in PropsWithoutWrap : OnKeyDownPageUp(e, props)
  \/ \E e \in KeyDownEvents("a"), props \in PropsUnused, disallowSelectAll \in BOOLEAN :
        OnKeyDownA(e, props, disallowSelectAll)
  \/ \E e \in KeyDownEvents("Escape"), props \in PropsUnused, disallowEmptySelection \in BOOLEAN :
        OnKeyDownEscape(e, props, disallowEmptySelection)
  \/ \E e \in KeyDownEvents("Enter"), props \in PropsUnused : OnKeyDownOther(e, props)
  \/ \E targetInside \in BOOLEAN, relatedTarget \in RelatedTargets, selectOnFocus \in BOOLEAN,
        isVirtualized \in BOOLEAN :
        OnFocusIn(targetInside, relatedTarget, selectOnFocus, isVirtualized)
  \/ \E relatedInside \in BOOLEAN : OnFocusOut(relatedInside)
  \/ \E autoFocus \in AutoFocusValues, shouldUseVirtualFocus \in BOOLEAN,
        firstInSet \in (IF selectedKeys = {} THEN {Undefined} ELSE selectedKeys),
        focusIn \in MountFocusIns :
        OnMount(autoFocus, shouldUseVirtualFocus, firstInSet, focusIn)
  \/ EventDone

SpecController == InitController /\ [][NextController]_vars

(***************************************************************************)
(* The Tab key on a mounted controller.  The case reads the DOM and not    *)
(* the manager, so it is explored on its own.                              *)
(***************************************************************************)
InitTab ==
  /\ \E n \in 0..Min(MaxItems, Len(ListItems)) : items = SubSeq(ListItems, 1, n)
  /\ call = NoCall
  /\ selectionMode \in SelectionModes
  /\ selectedKeys = {}
  /\ anchorKey = Undefined
  /\ focusedKey = Undefined
  /\ isFocused = TRUE
  /\ delegateMethods \in DelegateKinds
  /\ mounted = TRUE
  /\ typeSelect = NoTypeSelect
  /\ ev = NoEvent

NextTab ==
  \/ \E e \in KeyDownEvents("Tab"), props \in PropsUnused, allowsTabNavigation \in BOOLEAN,
        tabbable \in SUBSET AllKeys :
        \E activeElement \in ActiveElements(tabbable) :
          OnKeyDownTab(e, props, allowsTabNavigation, tabbable, activeElement)
  \/ EventDone

SpecTab == InitTab /\ [][NextTab]_vars

(***************************************************************************)
(* A mounted controller whose Collection loses items.  The controller has  *)
(* no effect or handler that runs when the items change: removeItem writes *)
(* the items and nothing else.                                             *)
(***************************************************************************)
NextRemoval ==
  \/ \E autoFocus \in AutoFocusValues, shouldUseVirtualFocus \in BOOLEAN,
        firstInSet \in (IF selectedKeys = {} THEN {Undefined} ELSE selectedKeys),
        focusIn \in MountFocusIns :
        call = NoCall /\ OnMount(autoFocus, shouldUseVirtualFocus, firstInSet, focusIn)
  \/ \E relatedInside \in BOOLEAN : call = NoCall /\ OnFocusOut(relatedInside)
  \/ EventDone
  \/ \E key \in Keys : ev = NoEvent /\ RemoveItem(key)
  \/ Return

SpecRemoval == InitController /\ [][NextRemoval]_vars

(***************************************************************************)
(* utils handler.ts: callHandler and chainHandlers.  A handler is          *)
(* undefined, a function, or a bound handler [fn, data]; what a handler    *)
(* function does is to be invoked (which is logged with the arguments it   *)
(* got and the defaultPrevented it found) and possibly to prevent the      *)
(* default of the event.                                                   *)
(***************************************************************************)
EventHandlers ==
  {[kind |-> "undefined"]}
    \cup [kind : {"function"}, prevents : BOOLEAN]
    \cup [kind : {"bound"}, prevents : BOOLEAN, data : {"data"}]

\* The events handed to a chained handler.
DomEvents == {"e1", "e2"}

RECURSIVE SeqsUpTo(_, _)
SeqsUpTo(S, n) ==
  IF n = 0 THEN {<<>>}
  ELSE LET shorter == SeqsUpTo(S, n - 1)
       IN shorter \cup {Append(s, x) : s \in {t \in shorter : Len(t) = n - 1}, x \in S}

\* The run of a chained handler so far: the invocations made and the
\* defaultPrevented flag of the event.
NoRun == [log |-> <<>>, defaultPrevented |-> FALSE]

\* handler(event) or handler[0](handler[1], event): the handler at this
\* position of the chain is invoked.
Invoke(handler, position, event, run) ==
  [log |-> Append(run.log,
                  [position |-> position, event |-> event,
                   data |-> IF handler.kind = "bound" THEN <<handler.data>> ELSE <<>>,
                   defaultPrevented |-> run.defaultPrevented]),
   defaultPrevented |-> run.defaultPrevented \/ handler.prevents]

\* callHandler(handler, event); its result, event.defaultPrevented, is the
\* flag of the run it leaves.
callHandler(handler, position, event, run) ==
  IF handler.kind # "undefined" THEN Invoke(handler, position, event, run) ELSE run

\* fns.forEach(fn => callHandler(fn, event)) from position i on.
RECURSIVE forEach(_, _, _, _)
forEach(fns, i, event, run) ==
  IF i > Len(fns) THEN run
  ELSE forEach(fns, i + 1, event, callHandler(fns[i], i, event, run))

\* The chain stops at the first handler that prevented the default.
RECURSIVE forEach_untilPrevented(_, _, _, _)
forEach_untilPrevented(fns, i, event, run) ==
  IF i > Len(fns) \/ run.defaultPrevented THEN run
  ELSE forEach_untilPrevented(fns, i + 1, event, callHandler(fns[i], i, event, run))

\* Mutant of chainHandlers: a handler that prevents the default ends the
\* chain.
chainHandlers_untilPrevented(fns, event) == forEach_untilPrevented(fns, 1, event, NoRun)

\* chainHandlers(...fns)(event)
chainHandlers(fns, event) == forEach(fns, 1, event, NoRun)

\* A handler made by chainHandlers is called with an event.
ChainHandlers(fns, event) ==
  /\ ev = NoEvent
  /\ ev' = [type |-> "chain", fns |-> fns, event |-> event] @@ chainHandlers(fns, event)
  /\ UNCHANGED <<items, call, managerVars, delegateMethods, mounted, typeSelect>>

(***************************************************************************)
(* createTypeSelect and its wiring into collectionProps.                   *)
(***************************************************************************)
\* delegate.getKeyForSearch(search, fromKey): the key of the first item, from
\* the item of fromKey on and around the end of the list, whose text matches
\* the search; found with the Collection's findIndexBySearch.
getKeyForSearch(search, fromKey) ==
  LET from == IF fromKey # Undefined THEN findIndexByKey(items, fromKey) ELSE 0 - 1
      index == findIndexBySearch(items, search, IF from >= 0 THEN from ELSE 0)
  IN IF index >= 0 THEN items[index + 1].key ELSE Undefined

\* Mutant of typeSelectOnKeyDown: the pending timer is not cancelled when a
\* new one is scheduled.
typeSelectOnKeyDown_noCancel(e, selectOnFocus) ==
  IF e.ctrlKey \/ e.altKey \/ ~Has("getKeyForSearch")
  THEN [typeSelect |-> typeSelect, calls |-> <<>>, searched |-> <<>>,
        found |-> Undefined, ran |-> FALSE]
  ELSE LET search == Append(typeSelect.search, e.key)
           key == getKeyForSearch(search, focusedKey)
           calls == IF key # Undefined
                    THEN <<CallSetFocusedKey(key, Undefined)>> \o
                         (IF selectOnFocus THEN <<CallReplaceSelection(key)>> ELSE <<>>)
                    ELSE <<>>
       IN [typeSelect |-> [search |-> search, timers |-> typeSelect.timers + 1],
           calls |-> calls, searched |-> search, found |-> key, ran |-> TRUE]

\* The keydown handler of createTypeSelect, on a key that is one printable
\* character.  The keydown qualifies when it carries no modifier other than
\* Shift and the delegate supports search: the character joins the buffer,
\* the delegate is asked for the key of the buffer from the focused key on,
\* a key it gives gets the focus (and is selected when selectOnFocus), and
\* the inactivity timer is reset: the pending one cancelled, a new one
\* scheduled.
typeSelectOnKeyDown(e, selectOnFocus) ==
  IF e.ctrlKey \/ e.altKey \/ ~Has("getKeyForSearch")
  THEN [typeSelect |-> typeSelect, calls |-> <<>>, searched |-> <<>>,
        found |-> Undefined, ran |-> FALSE]
  ELSE LET search == Append(typeSelect.search, e.key)
           key == getKeyForSearch(search, focusedKey)
           calls == IF key # Undefined
                    THEN <<CallSetFocusedKey(key, Undefined)>> \o
                         (IF selectOnFocus THEN <<CallReplaceSelection(key)>> ELSE <<>>)
                    ELSE <<>>
       IN [typeSelect |-> [search |-> search, timers |-> 1],
           calls |-> calls, searched |-> search, found |-> key, ran |-> TRUE]

\* typeSelectProps(): the handlers createTypeSelect gives, by event, each
\* event with the sequence of its handlers.
typeSelectProps == [onKeyDown |-> <<"typeSelect.onKeyDown">>]

\* The base handlers of collectionProps.
handlers ==
  [onKeyDown |-> <<"onKeyDown">>, onFocusIn |-> <<"onFocusIn">>,
   onFocusOut |-> <<"onFocusOut">>, onMouseDown |-> <<"onMouseDown">>]

\* combineProps(a, b): the handlers of one event are chained, those of a
\* before those of b.
combineProps(a, b) ==
  [name \in DOMAIN a \cup DOMAIN b |->
     (IF name \in DOMAIN a THEN a[name] ELSE <<>>) \o
     (IF name \in DOMAIN b THEN b[name] ELSE <<>>)]

\* Mutant of collectionHandlers: the typeahead handlers are combined behind
\* the base handlers.
collectionHandlers_baseFirst(disallowTypeAhead) ==
  IF ~disallowTypeAhead THEN combineProps(handlers, typeSelectProps) ELSE handlers

\* The handlers of collectionProps.
collectionHandlers(disallowTypeAhead) ==
  IF ~disallowTypeAhead THEN combineProps(typeSelectProps, handlers) ELSE handlers

\* The keydown events of a printable character that Ctrl is not held on
\* (with Ctrl the key is the base handler's: OnKeyDownA).
CharKeyDownEvents ==
  {e \in UNION {KeyDownEvents(c) : c \in FilterChars} : ~e.ctrlKey}

\* A keydown of a printable character inside the container: the handlers
\* attached to onKeyDown run in their order.  The base onKeyDown has no
\* case for the key (case "a" needs Ctrl), so the typeahead handler, when it
\* is attached, is the one that acts.
OnKeyDownChar(e, props, disallowTypeAhead) ==
  /\ ev = NoEvent
  /\ mounted
  /\ Len(typeSelect.search) < MaxFilterLen
  /\ UNCHANGED <<items, call, selectionMode, delegateMethods, mounted>>
  /\ LET attached == collectionHandlers(disallowTypeAhead).onKeyDown
         typeAhead == \E i \in 1..Len(attached) : attached[i] = "typeSelect.onKeyDown"
         result == IF typeAhead THEN typeSelectOnKeyDown(e, props.selectOnFocus)
                   ELSE [typeSelect |-> typeSelect, calls |-> <<>>, searched |-> <<>>,
                         found |-> Undefined, ran |-> FALSE]
     IN /\ typeSelect' = result.typeSelect
        /\ Perform(result.calls)
        /\ ev' = Handled(e, props, "unread", FALSE, Undefined, Undefined, result.calls)
                   @@ [disallowTypeAhead |-> disallowTypeAhead, log |-> attached,
                       searchBefore |-> typeSelect.search, timersBefore |-> typeSelect.timers,
                       searched |-> result.searched, found |-> result.found,
                       ran |-> result.ran]

\* A reset timer of the typeahead fires.
TypeSelectTimeout ==
  /\ ev = NoEvent
  /\ typeSelect.timers > 0
  /\ typeSelect' = [search |-> <<>>, timers |-> typeSelect.timers - 1]
  /\ ev' = [type |-> "timeout", searchBefore |-> typeSelect.search,
            timersBefore |-> typeSelect.timers]
  /\ UNCHANGED <<items, call, managerVars, delegateMethods, mounted>>

\* The delegate of a list with typeahead, and the same without search.
SearchDelegates ==
  { VerticalMethods \cup BoundaryMethods \cup {"getKeyForSearch"},
    VerticalMethods \cup BoundaryMethods }

InitTypeSelect ==
  /\ items = ListItems
  /\ call = NoCall
  /\ selectionMode = "single"
  /\ selectedKeys = {}
  /\ anchorKey = Undefined
  /\ focusedKey = Undefined
  /\ isFocused = TRUE
  /\ delegateMethods \in SearchDelegates
  /\ mounted = TRUE
  /\ typeSelect = NoTypeSelect
  /\ ev = NoEvent

NextTypeSelect ==
  \/ \E e \in CharKeyDownEvents, props \in PropsWithoutWrap, disallowTypeAhead \in BOOLEAN :
        OnKeyDownChar(e, props, disallowTypeAhead)
  \/ TypeSelectTimeout
  \/ \E fns \in SeqsUpTo(EventHandlers, MaxHandlers), event \in DomEvents :
        ChainHandlers(fns, event)
  \/ EventDone

SpecTypeSelect == InitTypeSelect /\ [][NextTypeSelect]_vars

(***************************************************************************)
(* Keydown events that do not belong to the collection: the target is not  *)
(* inside the container (the event bubbled through a portal) or the        *)
(* container ref is unset.                                                 *)
(***************************************************************************)
\* The keys pressed outside: keys that have a case of their own in
\* onKeyDown, and one that has none.
OutsideKeys == {"ArrowDown", "Home", "a", "Escape", "Tab", "Enter"}

\* What such a keydown leaves for inspection: refSet tells whether ref()
\* gave an element; the target is in no case inside it.
HandledOutside(e, props, refSet, prevented, calls) ==
  Handled(e, props, "unread", prevented, Undefined, Undefined, calls)
    @@ [refSet |-> refSet, targetInside |-> FALSE, domFocus |-> Undefined]

\* Mutant of OnKeyDownOutside: the containment test is missing, Escape is
\* handled as inside the collection.
OnKeyDownOutside_escapeHandled(e, props, refSet) ==
  /\ ev = NoEvent
  /\ UNCHANGED <<items, call, selectionMode, delegateMethods, mounted, typeSelect>>
  /\ LET calls == IF e.key = "Escape" THEN <<CallClearSelection>> ELSE <<>>
     IN /\ Perform(calls)
        /\ ev' = HandledOutside(e, props, refSet,
                                (e.altKey /\ e.key = "Tab") \/ e.key = "Escape", calls)

\* onKeyDown up to its first return: Alt+Tab is default-prevented, then the
\* handler returns because !refEl?.contains(e.target).
OnKeyDownOutside(e, props, refSet) ==
  /\ ev = NoEvent
  /\ UNCHANGED <<items, call, selectionMode, delegateMethods, mounted, typeSelect>>
  /\ Perform(<<>>)
  /\ ev' = HandledOutside(e, props, refSet, e.altKey /\ e.key = "Tab", <<>>)

NextOutside ==
  \/ \E autoFocus \in AutoFocusValues, shouldUseVirtualFocus \in BOOLEAN,
        firstInSet \in (IF selectedKeys = {} THEN {Undefined} ELSE selectedKeys),
        focusIn \in MountFocusIns :
        OnMount(autoFocus, shouldUseVirtualFocus, firstInSet, focusIn)
  \/ \E key \in OutsideKeys, props \in PropsUnused, refSet \in BOOLEAN :
        \E e \in KeyDownEvents(key) : OnKeyDownOutside(e, props, refSet)
  \/ EventDone

SpecOutside == InitController /\ [][NextOutside]_vars

(***************************************************************************)
(* Properties of the controller.                                           *)
(***************************************************************************)
FirstItemKey == items[1].key

LastItemKey == items[Len(items)].key

KeyDownOn(key) == ev.type = "keydown" /\ ev.key = key

\* C9: ArrowDown with focus on the last item (no key below) moves focusedKey
\* to the delegate's first key when shouldFocusWrap is set and leaves it
\* unchanged when it is not; ArrowUp on the first item moves to the
\* delegate's last key only when wrap is set.  A delegate without
\* getFirstKey / getLastKey has no key to wrap to.
C9_VerticalWrap ==
  /\ (/\ KeyDownOn("ArrowDown")
      /\ Has("getKeyBelow")
      /\ Len(items) >= 1
      /\ ev.focusedKeyBefore = LastItemKey) =>
        IF ev.shouldFocusWrap /\ Has("getFirstKey")
        THEN focusedKey = FirstItemKey
        ELSE focusedKey = ev.focusedKeyBefore
  /\ (/\ KeyDownOn("ArrowUp")
      /\ Has("getKeyAbove")
      /\ Len(items) >= 1
      /\ ev.focusedKeyBefore = FirstItemKey) =>
        IF ev.shouldFocusWrap /\ Has("getLastKey")
        THEN focusedKey = LastItemKey
        ELSE focusedKey = ev.focusedKeyBefore

\* C9 witness: ArrowDown on the last of three items wrapped to the first.
C9_Witness ==
  /\ KeyDownOn("ArrowDown")
  /\ Len(items) = 3
  /\ ev.shouldFocusWrap
  /\ ev.focusedKeyBefore = LastItemKey
  /\ focusedKey = FirstItemKey

\* C9 second witness: ArrowDown on the last of three items with wrap disabled
\* left the focus where it was.
C9_WitnessNoWrap ==
  /\ KeyDownOn("ArrowDown")
  /\ Has("getKeyBelow")
  /\ Has("getFirstKey")
  /\ Len(items) = 3
  /\ ~ev.shouldFocusWrap
  /\ ev.focusedKeyBefore = LastItemKey
  /\ focusedKey = LastItemKey

\* C10 as claimed: ArrowLeft / ArrowRight move focus to the left / right
\* neighbour of the focused key, and when there is none and shouldFocusWrap
\* is set, focus jumps to the opposite end of the collection.
C10_HorizontalWrap ==
  /\ (/\ KeyDownOn("ArrowRight")
      /\ Has("getKeyRightOf")
      /\ ev.focusedKeyBefore # Undefined) =>
        IF getKeyRightOf(ev.focusedKeyBefore) # Undefined
        THEN focusedKey = getKeyRightOf(ev.focusedKeyBefore)
        ELSE (ev.shouldFocusWrap /\ Has("getFirstKey")) => focusedKey = FirstItemKey
  /\ (/\ KeyDownOn("ArrowLeft")
      /\ Has("getKeyLeftOf")
      /\ ev.focusedKeyBefore # Undefined) =>
        IF getKeyLeftOf(ev.focusedKeyBefore) # Undefined
        THEN focusedKey = getKeyLeftOf(ev.focusedKeyBefore)
        ELSE (ev.shouldFocusWrap /\ Has("getLastKey")) => focusedKey = LastItemKey

\* The keys that navigate through navigateToKey.
NavigationKeys == {"ArrowDown", "ArrowUp", "ArrowLeft", "ArrowRight", "PageDown", "PageUp"}

\* The selection a manager holds after replaceSelection(key).
Replaced(key) == IF selectionMode = "none" THEN {} ELSE {key}

\* The key a range selection to toKey started from, given what the handler
\* found.
RangeOrigin(toKey) ==
  IF ev.anchorKeyBefore # Undefined THEN ev.anchorKeyBefore
  ELSE IF ev.focusedKeyBefore # Undefined THEN ev.focusedKeyBefore ELSE toKey

\* C11: every arrow or page navigation that resolves to a key sets focusedKey
\* to that key; with Shift held in multiple mode the selection is extended
\* to the key (extendSelection); otherwise, with selectOnFocus and no
\* non-contiguous selection modifier held, the selection is replaced by
\* exactly that key (replaceSelection); otherwise the selection is unchanged.
C11_NavigatePolicy ==
  (/\ ev.type = "keydown"
   /\ ev.key \in NavigationKeys
   /\ ev.nextKey # Undefined) =>
     /\ focusedKey = ev.nextKey
     /\ IF ev.shiftKey /\ selectionMode = "multiple"
        THEN /\ ev.calls = <<CallSetFocusedKey(ev.nextKey, ev.childFocus),
                             CallExtendSelection(ev.nextKey)>>
             /\ selectedKeys = ev.selectedKeysBefore
                                 \cup KeyRange(RangeOrigin(ev.nextKey), ev.nextKey)
        ELSE IF ev.selectOnFocus /\ ~isNonContiguousSelectionModifier(ev)
             THEN /\ ev.calls = <<CallSetFocusedKey(ev.nextKey, ev.childFocus),
                                  CallReplaceSelection(ev.nextKey)>>
                  /\ selectedKeys = Replaced(ev.nextKey)
             ELSE /\ ev.calls = <<CallSetFocusedKey(ev.nextKey, ev.childFocus)>>
                  /\ selectedKeys = ev.selectedKeysBefore

\* C11 witness: ArrowDown with selectOnFocus and the non-contiguous modifier
\* held moved the focus to a key outside the selection and kept the
\* selection.
C11_Witness ==
  /\ KeyDownOn("ArrowDown")
  /\ ev.selectOnFocus
  /\ isNonContiguousSelectionModifier(ev)
  /\ ~ev.shiftKey
  /\ ev.nextKey # Undefined
  /\ focusedKey = ev.nextKey
  /\ ev.selectedKeysBefore # {}
  /\ selectedKeys = ev.selectedKeysBefore
  /\ focusedKey \notin selectedKeys

\* C11 second witness: PageDown with selectOnFocus and no modifier replaced a
\* selection of two keys by the key it moved to.
C11_WitnessReplace ==
  /\ KeyDownOn("PageDown")
  /\ ev.selectOnFocus
  /\ ~ev.ctrlKey
  /\ ~ev.shiftKey
  /\ Cardinality(ev.selectedKeysBefore) = 2
  /\ ev.nextKey # Undefined
  /\ selectedKeys = {ev.nextKey}

C13_SingleSelection ==
  /\ selectionMode = "single" => Cardinality(selectedKeys) <= 1
  /\ ev.type # "none" =>
       /\ \A i \in 1..Len(ev.calls) :
            ev.calls[i].op \in {"extendSelection", "selectAll"} => selectionMode = "multiple"
       /\ (selectionMode # "multiple" /\ selectedKeys # ev.selectedKeysBefore) =>
            \E i \in 1..Len(ev.calls) :
              ev.calls[i].op \in {"replaceSelection", "clearSelection"}

\* C13 witness: in single mode Shift+ArrowDown replaced the one selected key
\* by the key below it.
C13_Witness ==
  /\ selectionMode = "single"
  /\ KeyDownOn("ArrowDown")
  /\ ev.shiftKey
  /\ ev.selectedKeysBefore = {"k1"}
  /\ ev.focusedKeyBefore = "k1"
  /\ selectedKeys = {"k2"}

\* What Home and End do with the boundary key the delegate returned.
BoundaryPolicy(key) ==
  /\ focusedKey = key
  /\ IF isCtrlKeyPressed(ev) /\ ev.shiftKey /\ selectionMode = "multiple"
     THEN /\ ev.calls = <<CallSetFocusedKey(key, Undefined), CallExtendSelection(key)>>
          /\ selectedKeys = ev.selectedKeysBefore \cup KeyRange(RangeOrigin(key), key)
     ELSE IF ev.selectOnFocus
          THEN /\ ev.calls = <<CallSetFocusedKey(key, Undefined), CallReplaceSelection(key)>>
               /\ selectedKeys = Replaced(key)
          ELSE /\ ev.calls = <<CallSetFocusedKey(key, Undefined)>>
               /\ selectedKeys = ev.selectedKeysBefore

\* C14: Home / End, when the delegate has getFirstKey / getLastKey and it
\* returns a key, set focusedKey to that key; with Ctrl and Shift held in
\* multiple mode the selection is extended to it; otherwise with selectOnFocus
\* the selection is replaced by it, also when Ctrl alone is held; otherwise
\* the selection is unchanged.
C14_HomeEnd ==
  /\ (KeyDownOn("Home") /\ Has("getFirstKey") /\ Len(items) >= 1) =>
       BoundaryPolicy(FirstItemKey)
  /\ (KeyDownOn("End") /\ Has("getLastKey") /\ Len(items) >= 1) =>
       BoundaryPolicy(LastItemKey)

\* C14 witness: Home with Ctrl alone and selectOnFocus replaced another
\* selection by the first key.
C14_Witness ==
  /\ KeyDownOn("Home")
  /\ Len(items) = 3
  /\ ev.ctrlKey
  /\ ~ev.shiftKey
  /\ ev.selectOnFocus
  /\ ev.selectedKeysBefore = {"k2", "k3"}
  /\ selectedKeys = {"k1"}
  /\ focusedKey = "k1"

\* C14 second witness: End with Ctrl and Shift in multiple mode extended the
\* selection from the first key to the last.
C14_WitnessExtend ==
  /\ KeyDownOn("End")
  /\ Len(items) = 3
  /\ ev.ctrlKey
  /\ ev.shiftKey
  /\ ev.selectedKeysBefore = {"k1"}
  /\ selectedKeys = {"k1", "k2", "k3"}
  /\ focusedKey = "k3"

\* The calls of the navigateToKey policy for the key a handled keydown
\* resolved.
PolicyCalls ==
  IF ev.nextKey = Undefined THEN <<>>
  ELSE <<CallSetFocusedKey(ev.nextKey, ev.childFocus)>> \o
       (IF ev.shiftKey /\ selectionMode = "multiple"
        THEN <<CallExtendSelection(ev.nextKey)>>
        ELSE IF ev.selectOnFocus /\ ~isNonContiguousSelectionModifier(ev)
             THEN <<CallReplaceSelection(ev.nextKey)>>
             ELSE <<>>)

\* C15: PageDown / PageUp with a key focused and the delegate method present
\* prevent the default and move the focus to the key the delegate returns
\* under the navigateToKey policy; with no key focused they do nothing:
\* focusedKey and the selection are unchanged and the default is not
\* prevented.
C15_Page ==
  /\ (KeyDownOn("PageDown") /\ Has("getKeyPageBelow") /\ ev.focusedKeyBefore # Undefined) =>
       /\ ev.defaultPrevented
       /\ ev.nextKey = getKeyPageBelow(ev.focusedKeyBefore)
       /\ ev.calls = PolicyCalls
       /\ focusedKey = Nullish(ev.nextKey, ev.focusedKeyBefore)
  /\ (KeyDownOn("PageUp") /\ Has("getKeyPageAbove") /\ ev.focusedKeyBefore # Undefined) =>
       /\ ev.defaultPrevented
       /\ ev.nextKey = getKeyPageAbove(ev.focusedKeyBefore)
       /\ ev.calls = PolicyCalls
       /\ focusedKey = Nullish(ev.nextKey, ev.focusedKeyBefore)
  /\ ((KeyDownOn("PageDown") \/ KeyDownOn("PageUp")) /\ ev.focusedKeyBefore = Undefined) =>
       /\ ev.calls = <<>>
       /\ focusedKey = Undefined
       /\ selectedKeys = ev.selectedKeysBefore
       /\ ~ev.defaultPrevented

\* C15 witness: PageDown with no key focused, on a delegate that pages over
\* three items, did nothing.
C15_Witness ==
  /\ KeyDownOn("PageDown")
  /\ Has("getKeyPageBelow")
  /\ Len(items) = 3
  /\ ev.focusedKeyBefore = Undefined
  /\ focusedKey = Undefined
  /\ ~ev.defaultPrevented

\* C15 second witness: PageDown from the first key moved the focus to the
\* key a page below.
C15_WitnessMove ==
  /\ KeyDownOn("PageDown")
  /\ Len(items) = 3
  /\ ev.focusedKeyBefore = "k1"
  /\ focusedKey = "k3"
  /\ ev.defaultPrevented

\* C16: Ctrl+A selects every key exactly when the mode is multiple and
\* disallowSelectAll is not true; otherwise the selection is unchanged and
\* the default is not prevented.
C16_SelectAll ==
  KeyDownOn("a") =>
    /\ focusedKey = ev.focusedKeyBefore
    /\ IF isCtrlKeyPressed(ev) /\ selectionMode = "multiple" /\ ~ev.disallowSelectAll
       THEN /\ ev.calls = <<CallSelectAll>>
            /\ selectedKeys = AllKeys
            /\ ev.defaultPrevented
       ELSE /\ ev.calls = <<>>
            /\ selectedKeys = ev.selectedKeysBefore
            /\ ~ev.defaultPrevented

\* C16 witness: Ctrl+A in multiple mode with disallowSelectAll left one of
\* three keys selected.
C16_Witness ==
  /\ KeyDownOn("a")
  /\ ev.ctrlKey
  /\ selectionMode = "multiple"
  /\ ev.disallowSelectAll
  /\ Len(items) = 3
  /\ selectedKeys = {"k2"}
  /\ ~ev.defaultPrevented

\* C16 second witness: Ctrl+A in multiple mode selected all three keys.
C16_WitnessAll ==
  /\ KeyDownOn("a")
  /\ ev.ctrlKey
  /\ ~ev.disallowSelectAll
  /\ Len(items) = 3
  /\ ev.selectedKeysBefore = {"k2"}
  /\ selectedKeys = {"k1", "k2", "k3"}

\* The selection Escape leaves, given the selection it found.
AfterEscape(selection) == IF ev.disallowEmptySelection THEN selection ELSE {}

\* C17: Escape clears the selection unless disallowEmptySelection is set, in
\* which case the selection is unchanged; focusedKey is unchanged in both
\* cases; and the selection it leaves is one that another Escape leaves as
\* it is.
C17_Escape ==
  KeyDownOn("Escape") =>
    /\ selectedKeys = AfterEscape(ev.selectedKeysBefore)
    /\ focusedKey = ev.focusedKeyBefore
    /\ ev.calls = IF ev.disallowEmptySelection THEN <<>> ELSE <<CallClearSelection>>
    /\ AfterEscape(selectedKeys) = selectedKeys

\* C17 witness: Escape with disallowEmptySelection kept two selected keys and
\* the focused key.
C17_Witness ==
  /\ KeyDownOn("Escape")
  /\ ev.disallowEmptySelection
  /\ Cardinality(selectedKeys) = 2
  /\ selectedKeys = ev.selectedKeysBefore
  /\ focusedKey # Undefined

\* C17 second witness: Escape cleared a selection of two keys and kept the
\* focused key.
C17_WitnessClear ==
  /\ KeyDownOn("Escape")
  /\ ~ev.disallowEmptySelection
  /\ Cardinality(ev.selectedKeysBefore) = 2
  /\ selectedKeys = {}
  /\ focusedKey = ev.focusedKeyBefore
  /\ focusedKey # Undefined

\* C17 third witness: Escape on a selection that is already empty left it
\* empty.
C17_WitnessAgain ==
  /\ KeyDownOn("Escape")
  /\ ~ev.disallowEmptySelection
  /\ ev.selectedKeysBefore = {}
  /\ ev.anchorKeyBefore = Undefined
  /\ selectedKeys = {}
  /\ focusedKey # Undefined

(***************************************************************************)
(* Properties of the Tab case.                                             *)
(***************************************************************************)
\* The index of the item whose element carries key.
ItemIndex(key) == CHOOSE i \in 1..Len(items) : items[i].key = key

\* The last tabbable item element in document order.
LastInOrder(tabbable) ==
  CHOOSE k \in tabbable : \A other \in tabbable : ItemIndex(other) <= ItemIndex(k)

\* The position of an element in document order: the container, then each
\* item element, "inner" right after the item element that holds it.
DocPos(element, tabbable) ==
  IF element = "container" THEN 0
  ELSE IF element = "inner" THEN 2 * ItemIndex(LastInOrder(tabbable)) + 1
       ELSE 2 * ItemIndex(element)

\* The tabbable descendants the browser's Tab step can reach from element:
\* those after it in document order.
TabbableAfter(element, tabbable) ==
  {k \in tabbable : DocPos(k, tabbable) > DocPos(element, tabbable)}

\* C18 as claimed: without allowsTabNavigation, Tab without Shift while the
\* focus is on any descendant moves the DOM focus to the last tabbable
\* descendant of the container, so that the browser's Tab step lands after
\* the collection; Shift+Tab moves the DOM focus to the container; with
\* allowsTabNavigation the handler moves no focus.
C18_TabMovesToLast ==
  KeyDownOn("Tab") =>
    IF ev.allowsTabNavigation THEN ev.domFocus = ev.activeElement
    ELSE IF ev.shiftKey THEN ev.domFocus = "container"
         ELSE (ev.activeElement # "container" /\ ev.tabbable # {}) =>
                /\ ev.domFocus = LastInOrder(ev.tabbable)
                /\ TabbableAfter(ev.domFocus, ev.tabbable) = {}

\* C18: without allowsTabNavigation, Tab without Shift while the focus is on
\* a descendant moves the DOM focus to the last tabbable descendant unless
\* the focus is already on it or inside it, or no descendant is tabbable; it
\* then stays where it is.  In every case no tabbable descendant follows the
\* focused element, so that the browser's Tab step lands after the
\* collection.  Shift+Tab moves the DOM focus to the container; with
\* allowsTabNavigation the handler moves no focus.  The handler calls nothing
\* on the manager.
C18_TabContainment ==
  KeyDownOn("Tab") =>
    /\ ev.calls = <<>>
    /\ IF ev.allowsTabNavigation THEN ev.domFocus = ev.activeElement
       ELSE IF ev.shiftKey THEN ev.domFocus = "container"
            ELSE ev.activeElement # "container" =>
                   /\ ev.domFocus = IF ev.tabbable = {} \/ ev.activeElement = "inner"
                                    THEN ev.activeElement
                                    ELSE LastInOrder(ev.tabbable)
                   /\ TabbableAfter(ev.domFocus, ev.tabbable) = {}

\* C18 witness: Tab on the first of three item elements, the first two of
\* them tabbable, moved the DOM focus to the second.
C18_Witness ==
  /\ KeyDownOn("Tab")
  /\ ~ev.allowsTabNavigation
  /\ ~ev.shiftKey
  /\ Len(items) = 3
  /\ ev.tabbable = {"k1", "k2"}
  /\ ev.activeElement = "k1"
  /\ ev.domFocus = "k2"

\* C18 second witness: Tab with the focus inside the last tabbable item
\* element left the DOM focus where it was.
C18_WitnessInside ==
  /\ KeyDownOn("Tab")
  /\ ~ev.allowsTabNavigation
  /\ ~ev.shiftKey
  /\ ev.tabbable # {}
  /\ ev.activeElement = "inner"
  /\ ev.domFocus = "inner"

(***************************************************************************)
(* Properties of onFocusIn.                                                *)
(***************************************************************************)
\* The first and the last of keys in collection order; undefined for no keys.
FirstOf(keySet) ==
  IF keySet \cap AllKeys = {} THEN Undefined
  ELSE CHOOSE k \in keySet \cap AllKeys : \A other \in keySet \cap AllKeys :
         ItemIndex(k) <= ItemIndex(other)

LastOf(keySet) ==
  IF keySet \cap AllKeys = {} THEN Undefined
  ELSE CHOOSE k \in keySet \cap AllKeys : \A other \in keySet \cap AllKeys :
         ItemIndex(k) >= ItemIndex(other)

\* The key a first focusin resolves: the last selected key, else the
\* delegate's last key, when the related target follows the container; the
\* first selected key, else the delegate's first key, otherwise.
FirstFocusKey ==
  IF ev.input.relatedTarget = "following"
  THEN IF ev.selectedKeysBefore # {} THEN LastOf(ev.selectedKeysBefore)
       ELSE IF Has("getLastKey") /\ Len(items) >= 1 THEN LastItemKey ELSE Undefined
  ELSE IF ev.selectedKeysBefore # {} THEN FirstOf(ev.selectedKeysBefore)
       ELSE IF Has("getFirstKey") /\ Len(items) >= 1 THEN FirstItemKey ELSE Undefined

\* C19: a focusin on the container while the manager is unfocused and no key
\* is focused makes the manager focused and sets focusedKey to the key
\* resolved from the direction of the related target; the selection is
\* replaced by that key only with selectOnFocus; when no key is resolved
\* focusedKey stays unset and the selection is unchanged.
C19_FirstFocusIn ==
  (/\ ev.type = "focusin"
   /\ ev.input.targetInside
   /\ ~ev.isFocusedBefore
   /\ ev.focusedKeyBefore = Undefined) =>
     /\ isFocused
     /\ focusedKey = FirstFocusKey
     /\ selectedKeys = IF FirstFocusKey # Undefined /\ ev.input.selectOnFocus
                       THEN Replaced(FirstFocusKey)
                       ELSE ev.selectedKeysBefore

\* C19 witness: a first focusin whose related target follows the container
\* focused the last selected key, not the last key, and kept the selection.
C19_Witness ==
  /\ ev.type = "focusin"
  /\ ev.input.targetInside
  /\ ev.input.relatedTarget = "following"
  /\ ~ev.input.selectOnFocus
  /\ ~ev.isFocusedBefore
  /\ ev.focusedKeyBefore = Undefined
  /\ Len(items) = 3
  /\ ev.selectedKeysBefore = {"k1", "k2"}
  /\ isFocused
  /\ focusedKey = "k2"
  /\ selectedKeys = {"k1", "k2"}

\* C19 second witness: a first focusin with no related target and
\* selectOnFocus focused and selected the delegate's first key.
C19_WitnessFirst ==
  /\ ev.type = "focusin"
  /\ ev.input.targetInside
  /\ ev.input.relatedTarget = "none"
  /\ ev.input.selectOnFocus
  /\ ~ev.isFocusedBefore
  /\ Len(items) = 3
  /\ ev.selectedKeysBefore = {}
  /\ focusedKey = "k1"
  /\ selectedKeys = {"k1"}

\* C19 third witness: a first focusin on a delegate without getFirstKey and
\* with nothing selected focused the manager and left focusedKey unset.
C19_WitnessNoKey ==
  /\ ev.type = "focusin"
  /\ ev.input.targetInside
  /\ ~ev.isFocusedBefore
  /\ Len(items) = 3
  /\ ~Has("getFirstKey")
  /\ isFocused
  /\ focusedKey = Undefined

\* C20 as claimed: a focusin whose target is not contained in the container
\* leaves isFocused, focusedKey and the selection unchanged in every state,
\* also when the manager is already focused.
C20_PortalIgnored ==
  (ev.type = "focusin" /\ ~ev.input.targetInside) =>
    /\ isFocused = ev.isFocusedBefore
    /\ focusedKey = ev.focusedKeyBefore
    /\ selectedKeys = ev.selectedKeysBefore

\* C20: a focusin whose target is not contained in the container leaves
\* focusedKey and the selection unchanged; an unfocused manager stays
\* unfocused, and a focused manager has its focus state reset:
\* setFocused(false).
C20_PortalFocusIn ==
  (ev.type = "focusin" /\ ~ev.input.targetInside) =>
    /\ ev.calls = IF ev.isFocusedBefore THEN <<CallSetFocused(FALSE)>> ELSE <<>>
    /\ ~isFocused
    /\ focusedKey = ev.focusedKeyBefore
    /\ selectedKeys = ev.selectedKeysBefore

\* C20 witness: a focusin from outside the container reached a focused
\* manager with a focused key and a selection and reset its focus state only.
C20_Witness ==
  /\ ev.type = "focusin"
  /\ ~ev.input.targetInside
  /\ ev.isFocusedBefore
  /\ ~isFocused
  /\ focusedKey # Undefined
  /\ focusedKey = ev.focusedKeyBefore
  /\ selectedKeys # {}
  /\ selectedKeys = ev.selectedKeysBefore

\* C20 second witness: a focusin from outside the container reached an
\* unfocused manager and changed nothing.
C20_WitnessUnfocused ==
  /\ ev.type = "focusin"
  /\ ~ev.input.targetInside
  /\ ~ev.isFocusedBefore
  /\ ~isFocused
  /\ ev.calls = <<>>
  /\ focusedKey # Undefined

\* C21: a focusout sets isFocused to false exactly when the related target
\* is not contained in the collection element; focus moving between two
\* descendants leaves isFocused as it was (true stays true).  focusedKey and
\* the selection are never changed by a focusout.
C21_FocusOut ==
  ev.type = "focusout" =>
    /\ isFocused = (IF ev.input.relatedInside THEN ev.isFocusedBefore ELSE FALSE)
    /\ ev.calls = (IF ev.input.relatedInside THEN <<>> ELSE <<CallSetFocused(FALSE)>>)
    /\ focusedKey = ev.focusedKeyBefore
    /\ selectedKeys = ev.selectedKeysBefore
    /\ anchorKey = ev.anchorKeyBefore

\* Focus moved between two descendants of a focused collection.
C21_Witness ==
  /\ ev.type = "focusout"
  /\ ev.input.relatedInside
  /\ ev.isFocusedBefore
  /\ isFocused
  /\ focusedKey # Undefined
  /\ selectedKeys # {}

\* Focus left a focused collection that has a focused key and a selection.
C21_WitnessLeft ==
  /\ ev.type = "focusout"
  /\ ~ev.input.relatedInside
  /\ ev.isFocusedBefore
  /\ ~isFocused
  /\ focusedKey # Undefined
  /\ selectedKeys # {}

\* C22 as stated: without autoFocus the mount changes nothing; with it the
\* key is the first selected key, else the delegate's first or last key, the
\* manager is focused on it and the selection is kept; when no key is
\* resolved and the focus is real, the container takes the DOM focus and
\* focusedKey stays unset.
C22_MountAsClaimed ==
  ev.type = "mount" =>
    LET key == IF ev.selectedKeysBefore # {} THEN ev.input.firstInSet
               ELSE IF ev.input.autoFocus = "first" THEN OptFirstKey
               ELSE IF ev.input.autoFocus = "last" THEN OptLastKey
               ELSE Undefined
    IN /\ selectedKeys = ev.selectedKeysBefore
       /\ IF ev.input.autoFocus = "false"
          THEN /\ focusedKey = ev.focusedKeyBefore
               /\ isFocused = ev.isFocusedBefore
               /\ ev.domFocus = Undefined
          ELSE IF key # Undefined
               THEN /\ isFocused
                    /\ focusedKey = key
                    /\ ev.domFocus = Undefined
               ELSE /\ ~ev.input.shouldUseVirtualFocus => ev.domFocus = "container"
                    /\ focusedKey = Undefined

\* C22, amended: as stated, except that when the container takes the DOM
\* focus, the focusin this raises is handled as any focusin on the
\* collection: if it reaches the handler the manager is marked focused and,
\* as nothing is selected, the delegate's first key (last key when the focus
\* comes from an element after the collection) becomes the focused key, and
\* is selected when selectOnFocus is set.  focusedKey stays unset only when
\* that focusin is not handled or the delegate has no such key; with virtual
\* focus nothing is focused at all.
C22_Mount ==
  ev.type = "mount" =>
    LET key == IF ev.selectedKeysBefore # {} THEN ev.input.firstInSet
               ELSE IF ev.input.autoFocus = "first" THEN OptFirstKey
               ELSE IF ev.input.autoFocus = "last" THEN OptLastKey
               ELSE Undefined
        focusIn == ev.input.focusIn
        entered == IF focusIn.relatedTarget = "following" THEN OptLastKey ELSE OptFirstKey
    IN IF ev.input.autoFocus = "false"
       THEN /\ focusedKey = ev.focusedKeyBefore
            /\ isFocused = ev.isFocusedBefore
            /\ selectedKeys = ev.selectedKeysBefore
            /\ ev.domFocus = Undefined
            /\ ev.calls = <<>>
       ELSE IF key # Undefined
            THEN /\ isFocused
                 /\ focusedKey = key
                 /\ selectedKeys = ev.selectedKeysBefore
                 /\ ev.domFocus = Undefined
            ELSE IF ev.input.shouldUseVirtualFocus
                 THEN /\ ev.domFocus = Undefined
                      /\ ev.calls = <<>>
                      /\ focusedKey = Undefined
                 ELSE /\ ev.domFocus = "container"
                      /\ IF focusIn.handled
                         THEN /\ isFocused
                              /\ focusedKey = entered
                              /\ selectedKeys =
                                   IF entered # Undefined /\ focusIn.selectOnFocus
                                   THEN Replaced(entered)
                                   ELSE ev.selectedKeysBefore
                         ELSE /\ ev.calls = <<>>
                              /\ focusedKey = Undefined

\* A mount with autoFocus "last" and a selection made beforehand: the first
\* selected key is focused, though the delegate's last key is another one.
C22_Witness ==
  /\ ev.type = "mount"
  /\ ev.input.autoFocus = "last"
  /\ ev.selectedKeysBefore # {}
  /\ OptLastKey # Undefined
  /\ focusedKey = ev.input.firstInSet
  /\ focusedKey # OptLastKey
  /\ isFocused

\* A mount with autoFocus = true and nothing selected: the container takes
\* the focus and the focusin it raises focuses the delegate's first key.
C22_WitnessContainer ==
  /\ ev.type = "mount"
  /\ ev.input.autoFocus = "true"
  /\ ev.selectedKeysBefore = {}
  /\ ev.domFocus = "container"
  /\ ev.input.focusIn.handled
  /\ focusedKey # Undefined
  /\ focusedKey = OptFirstKey

\* A mount with a focus strategy and nothing selected.
C22_WitnessStrategy ==
  /\ ev.type = "mount"
  /\ ev.input.autoFocus = "first"
  /\ ev.selectedKeysBefore = {}
  /\ focusedKey # Undefined
  /\ focusedKey = OptFirstKey
  /\ ev.domFocus = Undefined

\* C23: in every reachable state the tabIndex of the container is 0 when no
\* key is focused within the collection and -1 when one is, whether or not
\* the collection has the focus; with shouldUseVirtualFocus it is left
\* undefined whatever the focus state.
C23_TabIndex ==
  /\ tabIndex(TRUE) = <<>>
  /\ Len(tabIndex(FALSE)) = 1
  /\ tabIndex(FALSE)[1] \in {0, -1}
  /\ tabIndex(FALSE)[1] = 0 <=> focusedKey = Undefined
  /\ (ev.type = "mount" /\ ev.domFocus = "container" /\ ev.calls = <<>>)
       => tabIndex(FALSE)[1] = 0

\* A collection that lost the focus and keeps its focused key: the items
\* hold the tab stop, not the container.
C23_Witness ==
  /\ ~isFocused
  /\ focusedKey # Undefined
  /\ tabIndex(FALSE) = <<-1>>
  /\ tabIndex(TRUE) = <<>>

\* A focused collection without a focused key: the container is the tab stop.
C23_WitnessContainer ==
  /\ isFocused
  /\ focusedKey = Undefined
  /\ tabIndex(FALSE) = <<0>>

\* The delegate method the case of a navigation key is guarded by.
RequiredMethod(key) ==
  CASE key = "ArrowDown" -> "getKeyBelow"
    [] key = "ArrowUp" -> "getKeyAbove"
    [] key = "ArrowLeft" -> "getKeyLeftOf"
    [] key = "ArrowRight" -> "getKeyRightOf"
    [] key = "Home" -> "getFirstKey"
    [] key = "End" -> "getLastKey"
    [] key = "PageDown" -> "getKeyPageBelow"
    [] key = "PageUp" -> "getKeyPageAbove"

\* The keys whose case needs a delegate method.
DelegateKeys ==
  {"ArrowDown", "ArrowUp", "ArrowLeft", "ArrowRight", "Home", "End", "PageDown", "PageUp"}

\* The handled keydown made no call on the manager and left it as it was.
ManagerUntouched ==
  /\ ev.calls = <<>>
  /\ focusedKey = ev.focusedKeyBefore
  /\ isFocused = ev.isFocusedBefore
  /\ selectedKeys = ev.selectedKeysBefore
  /\ anchorKey = ev.anchorKeyBefore

\* C25: a navigation key whose delegate method is absent, and a key the
\* handler has no case for (Enter), is handled to the end without a call on
\* the manager: focusedKey, isFocused and the selection are unchanged and the
\* default is not prevented.
C25_AbsentMethod ==
  (/\ ev.type = "keydown"
   /\ \/ ev.key \in DelegateKeys /\ ~Has(RequiredMethod(ev.key))
      \/ ev.key = "Enter")
    => /\ ManagerUntouched
       /\ ~ev.defaultPrevented

\* Home, with Shift and Ctrl, on a delegate without getFirstKey, in a list
\* that has items, a focused key and a selection.
C25_Witness ==
  /\ ev.type = "keydown"
  /\ ev.key = "Home"
  /\ ev.shiftKey /\ ev.ctrlKey
  /\ ev.selectOnFocus
  /\ ~Has("getFirstKey")
  /\ Has("getKeyBelow")
  /\ selectionMode = "multiple"
  /\ focusedKey # Undefined
  /\ focusedKey # FirstItemKey
  /\ selectedKeys # {}

\* A key without a case, on a focused key that is not selected.
C25_WitnessOther ==
  /\ ev.type = "keydown"
  /\ ev.key = "Enter"
  /\ focusedKey # Undefined
  /\ focusedKey \notin selectedKeys
  /\ ~ev.defaultPrevented

\* The keydown is a navigation that found no key: the delegate method gave
\* undefined and the wrap, where the case has one, is off or gave no key.
NoNeighbour ==
  /\ ev.type = "keydown"
  /\ ev.key \in DelegateKeys
  /\ Has(RequiredMethod(ev.key))
  /\ ev.key \in {"PageDown", "PageUp"} => ev.focusedKeyBefore # Undefined
  /\ LET focused == ev.focusedKeyBefore
         given ==
           CASE ev.key = "ArrowDown" ->
                  IF focused # Undefined THEN getKeyBelow(focused) ELSE OptFirstKey
             [] ev.key = "ArrowUp" ->
                  IF focused # Undefined THEN getKeyAbove(focused) ELSE OptLastKey
             [] ev.key = "ArrowLeft" ->
                  IF focused # Undefined THEN getKeyLeftOf(focused)
                  ELSE IF ev.direction = "rtl" THEN OptFirstKey ELSE OptLastKey
             [] ev.key = "ArrowRight" ->
                  IF focused # Undefined THEN getKeyRightOf(focused)
                  ELSE IF ev.direction = "rtl" THEN OptLastKey ELSE OptFirstKey
             [] ev.key = "Home" -> getFirstKey
             [] ev.key = "End" -> getLastKey
             [] ev.key = "PageDown" -> getKeyPageBelow(focused)
             [] ev.key = "PageUp" -> getKeyPageAbove(focused)
         wrapped ==
           CASE ev.key = "ArrowDown" /\ ev.shouldFocusWrap -> OptFirstKey
             [] ev.key = "ArrowUp" /\ ev.shouldFocusWrap -> OptLastKey
             [] OTHER -> Undefined
     IN given = Undefined /\ wrapped = Undefined

\* C26: a navigation key for which the delegate gives no key, with the wrap
\* off or giving no key either, changes neither focusedKey nor the
\* selection, whatever the modifiers and selectOnFocus.
C26_NoNeighbour ==
  NoNeighbour =>
    /\ ev.nextKey = Undefined
    /\ ManagerUntouched

\* Shift+ArrowDown with selectOnFocus on the last key, wrap off.
C26_Witness ==
  /\ NoNeighbour
  /\ ev.key = "ArrowDown"
  /\ ev.shiftKey
  /\ ev.selectOnFocus
  /\ ~ev.shouldFocusWrap
  /\ selectionMode = "multiple"
  /\ Len(items) > 1
  /\ focusedKey = LastItemKey

\* ArrowUp on the first key with the wrap on and a delegate without
\* getLastKey: the wrap gives no key.
C26_WitnessWrap ==
  /\ NoNeighbour
  /\ ev.key = "ArrowUp"
  /\ ev.shouldFocusWrap
  /\ ev.selectOnFocus
  /\ ~Has("getLastKey")
  /\ Len(items) > 1
  /\ focusedKey = FirstItemKey

\* The setFocusedKey call of the handled keydown carries this child focus
\* strategy.
FocusedChild(childFocus) ==
  /\ CallsOf(ev.calls, "setFocusedKey") # {}
  /\ LastCallOf(ev.calls, "setFocusedKey").childFocus = childFocus
  /\ LastCallOf(ev.calls, "setFocusedKey").key = ev.nextKey
  /\ focusedKey = ev.nextKey

\* C28: with no key focused, ArrowLeft goes to the delegate's last key under
\* LTR and to its first key under RTL, ArrowRight to the first key under LTR
\* and the last under RTL; the child focus strategy is "last" for ArrowLeft
\* and "first" for ArrowRight under LTR and the other way round under RTL.
\* With a key focused, getKeyLeftOf / getKeyRightOf of that key is taken in
\* both directions.
C28_Horizontal ==
  /\ (KeyDownOn("ArrowLeft") /\ Has("getKeyLeftOf")) =>
       /\ ev.direction \in Directions
       /\ ev.nextKey = IF ev.focusedKeyBefore # Undefined
                       THEN getKeyLeftOf(ev.focusedKeyBefore)
                       ELSE IF ev.direction = "ltr" THEN OptLastKey ELSE OptFirstKey
       /\ ev.nextKey # Undefined =>
            FocusedChild(IF ev.direction = "ltr" THEN "last" ELSE "first")
  /\ (KeyDownOn("ArrowRight") /\ Has("getKeyRightOf")) =>
       /\ ev.direction \in Directions
       /\ ev.nextKey = IF ev.focusedKeyBefore # Undefined
                       THEN getKeyRightOf(ev.focusedKeyBefore)
                       ELSE IF ev.direction = "ltr" THEN OptFirstKey ELSE OptLastKey
       /\ ev.nextKey # Undefined =>
            FocusedChild(IF ev.direction = "ltr" THEN "first" ELSE "last")

\* ArrowLeft under RTL with no key focused enters at the first key.
C28_Witness ==
  /\ KeyDownOn("ArrowLeft")
  /\ ev.direction = "rtl"
  /\ ev.focusedKeyBefore = Undefined
  /\ Len(items) > 1
  /\ focusedKey = FirstItemKey
  /\ FocusedChild("first")

\* ArrowRight under RTL with no key focused enters at the last key.
C28_WitnessRight ==
  /\ KeyDownOn("ArrowRight")
  /\ ev.direction = "rtl"
  /\ ev.focusedKeyBefore = Undefined
  /\ Len(items) > 1
  /\ focusedKey = LastItemKey
  /\ FocusedChild("last")

\* ArrowLeft under RTL with a key focused takes getKeyLeftOf of it.
C28_WitnessFocused ==
  /\ KeyDownOn("ArrowLeft")
  /\ ev.direction = "rtl"
  /\ Len(items) > 1
  /\ ev.focusedKeyBefore = LastItemKey
  /\ focusedKey = getKeyLeftOf(LastItemKey)
  /\ FocusedChild("first")

\* The observer of the handled keydown saw, at some point, the focused key
\* the handler left together with the selection the handler found, though
\* the handler changed both.
TornWrite ==
  /\ focusedKey # ev.focusedKeyBefore
  /\ selectedKeys # ev.selectedKeysBefore
  /\ \E i \in 1..Len(ev.observed) :
       /\ ev.observed[i].focusedKey = focusedKey
       /\ ev.observed[i].selectedKeys = ev.selectedKeysBefore

\* C30: the writes of one handler to the manager are atomic: during a
\* keydown that moves the focus and changes the selection, no reactive
\* observer sees the new focusedKey together with the old selectedKeys.
C30_AtomicWrites ==
  ev.type = "keydown" => ~TornWrite

\* The last thing the observer of a handler sees is the state the handler
\* leaves.
ObservedToTheEnd ==
  (ev.type = "keydown" /\ ev.calls # <<>>) =>
    /\ ev.observed[Len(ev.observed)].focusedKey = focusedKey
    /\ ev.observed[Len(ev.observed)].selectedKeys = selectedKeys

\* C27: in every reachable state focusedKey, when set, is the key of an item
\* the collection holds, also after the focused item has been removed from
\* the Collection.
C27_FocusedKeyExists ==
  focusedKey # Undefined => focusedKey \in AllKeys

\* The handled event is a keydown the typeahead handler took.
TypeAheadKeyDown == ev.type = "keydown" /\ ev.ran

\* C24: once the inactivity timer has fired the buffer is empty and no
\* timer is pending, so the next character typed is searched alone; a
\* character typed while a timer is pending is searched behind the ones
\* before it, and after every typed character exactly one timer is pending.
\* A buffer that is not empty always has its one timer, so it cannot outlive
\* the timeout.
C24_TypeaheadReset ==
  /\ typeSelect.timers \in {0, 1}
  /\ typeSelect.timers = 0 => typeSelect.search = <<>>
  /\ ev.type = "timeout" => typeSelect = NoTypeSelect
  /\ TypeAheadKeyDown =>
       /\ ev.searched = ev.searchBefore \o <<ev.key>>
       /\ ev.timersBefore = 0 => ev.searched = <<ev.key>>
       /\ ev.found = getKeyForSearch(ev.searched, ev.focusedKeyBefore)
       /\ focusedKey = IF ev.found # Undefined THEN ev.found ELSE ev.focusedKeyBefore
       /\ typeSelect = [search |-> ev.searched, timers |-> 1]

\* "b" typed with Apple focused and an empty buffer: Apple got the focus by
\* an "a" typed before, and the buffer is empty again because the timer
\* fired in between.  "b" is searched alone and finds Banana; "ab" would
\* find nothing.
C24_Witness ==
  /\ TypeAheadKeyDown
  /\ ev.key = "b"
  /\ ev.focusedKeyBefore = "k1"
  /\ ev.searchBefore = <<>>
  /\ ev.searched = <<"b">>
  /\ focusedKey = "k2"
  /\ getKeyForSearch(<<"a", "b">>, "k1") = Undefined

\* "b" typed behind "a" before the timer fired: "ab" is searched, nothing is
\* found, the focus stays and one timer is pending.
C24_WitnessConcatenation ==
  /\ TypeAheadKeyDown
  /\ ev.key = "b"
  /\ ev.searchBefore = <<"a">>
  /\ ev.timersBefore = 1
  /\ ev.searched = <<"a", "b">>
  /\ ev.found = Undefined
  /\ focusedKey = "k1"
  /\ typeSelect.timers = 1

\* The timer fired on a buffer that held a character.
C24_WitnessTimeout ==
  /\ ev.type = "timeout"
  /\ ev.searchBefore # <<>>
  /\ typeSelect.search = <<>>

\* The positions of fns that hold a handler, in order.
RECURSIVE DefinedFrom(_, _)
DefinedFrom(fns, i) ==
  IF i > Len(fns) THEN <<>>
  ELSE (IF fns[i].kind # "undefined" THEN <<i>> ELSE <<>>) \o DefinedFrom(fns, i + 1)

\* C29: a chained handler invokes every handler that is defined exactly
\* once, in argument order, each with the event the chain was called with
\* (a bound handler with its data as well); undefined handlers are skipped
\* and a handler that prevented the default does not end the chain.  With
\* typeahead allowed the typeahead keydown handler is attached before the
\* base keydown handler and the other events have their base handler only;
\* with disallowTypeAhead the base handlers alone are attached and a typed
\* character leaves the typeahead as it was.
C29_HandlerOrder ==
  /\ ev.type = "chain" =>
       LET defined == DefinedFrom(ev.fns, 1)
       IN /\ Len(ev.log) = Len(defined)
          /\ \A n \in 1..Len(defined) :
               /\ ev.log[n].position = defined[n]
               /\ ev.log[n].event = ev.event
               /\ ev.log[n].data = IF ev.fns[defined[n]].kind = "bound"
                                   THEN <<ev.fns[defined[n]].data>> ELSE <<>>
               /\ ev.log[n].defaultPrevented =
                    \E m \in 1..(n - 1) : ev.fns[defined[m]].prevents
          /\ ev.defaultPrevented = \E n \in 1..Len(defined) : ev.fns[defined[n]].prevents
  /\ (ev.type = "keydown" /\ ~ev.disallowTypeAhead) =>
       ev.log = <<"typeSelect.onKeyDown", "onKeyDown">>
  /\ (ev.type = "keydown" /\ ev.disallowTypeAhead) =>
       /\ ev.log = <<"onKeyDown">>
       /\ ~ev.ran
       /\ typeSelect = [search |-> ev.searchBefore, timers |-> ev.timersBefore]
       /\ focusedKey = ev.focusedKeyBefore
  /\ collectionHandlers(TRUE) = handlers
  /\ \A name \in {"onFocusIn", "onFocusOut", "onMouseDown"} :
       collectionHandlers(FALSE)[name] = handlers[name]

\* A chain of three handlers: the first prevents the default, the second is
\* undefined, the third is invoked all the same and finds the default
\* prevented.
C29_Witness ==
  /\ ev.type = "chain"
  /\ Len(ev.fns) = 3
  /\ ev.fns[1].kind = "function" /\ ev.fns[1].prevents
  /\ ev.fns[2].kind = "undefined"
  /\ ev.fns[3].kind = "bound"
  /\ Len(ev.log) = 2
  /\ ev.log[2].position = 3
  /\ ev.log[2].defaultPrevented

\* A typed character with typeahead allowed: both handlers ran, the
\* typeahead first, and it moved the focus.
C29_WitnessTypeAhead ==
  /\ ev.type = "keydown"
  /\ ~ev.disallowTypeAhead
  /\ ev.ran
  /\ ev.log = <<"typeSelect.onKeyDown", "onKeyDown">>
  /\ focusedKey # ev.focusedKeyBefore

\* A typed character with disallowTypeAhead on a delegate that has search.
C29_WitnessDisallowed ==
  /\ ev.type = "keydown"
  /\ ev.disallowTypeAhead
  /\ Has("getKeyForSearch")
  /\ ~ev.shiftKey /\ ~ev.altKey
  /\ ev.log = <<"onKeyDown">>
  /\ typeSelect.search # <<>>

\* The order findIndexBySearch searches the items in, from startIndex.
RotatedOrder(startIndex) == SliceFrom(items, startIndex) \o Slice(items, 0, startIndex)

\* The item at 0-based index i is a match of the filter: its textValue
\* starts with the filter or, for a filter of one repeated character, with
\* that character.
MatchAt(i, filter) ==
  \/ StartsWith(items[i + 1].textValue, filter)
  \/ /\ OneCharRepeated(filter)
     /\ StartsWith(items[i + 1].textValue, <<filter[1]>>)

\* C32: for every integer start index, negative ones and those at or beyond
\* the length included, the order searched is a permutation of the items;
\* findIndexBySearch returns -1 only when no item matches the filter, and a
\* result that is not -1 is the index of an item that matches.
C32_SearchComplete ==
  call.op = "findIndexBySearch" =>
    LET order == RotatedOrder(call.startIndex)
    IN /\ Len(order) = Len(items)
       /\ \A i \in 1..Len(items) : \E j \in 1..Len(order) : order[j] = items[i]
       /\ call.ret \in (0 - 1)..(Len(items) - 1)
       /\ call.ret = 0 - 1 => \A i \in 0..(Len(items) - 1) : ~MatchAt(i, call.filter)
       /\ call.ret >= 0 => MatchAt(call.ret, call.filter)

\* A search from start index -1 (nothing focused) in a collection of several
\* items finds an item that is not the last one.
C32_Witness ==
  /\ call.op = "findIndexBySearch"
  /\ call.startIndex = 0 - 1
  /\ call.filter # <<>>
  /\ Len(items) >= 2
  /\ call.ret >= 0
  /\ call.ret < Len(items) - 1
  /\ ~MatchAt(Len(items) - 1, call.filter)

\* A search from a start index beyond the length finds an item.
C32_WitnessBeyond ==
  /\ call.op = "findIndexBySearch"
  /\ call.startIndex > Len(items)
  /\ call.filter # <<>>
  /\ Len(items) >= 2
  /\ call.ret > 0

\* A search from a start index at the length finds nothing: no item matches.
C32_WitnessNone ==
  /\ call.op = "findIndexBySearch"
  /\ call.startIndex = Len(items)
  /\ Len(items) >= 2
  /\ call.ret = 0 - 1

\* C31: a keydown whose target is not inside the container, or that finds
\* the container ref unset, makes no call on the manager (focusedKey,
\* isFocused and the selection are as they were) and moves no DOM focus,
\* whatever the key and its modifiers; its default is prevented exactly when
\* it is Alt+Tab.
C31_OutsideIgnored ==
  (ev.type = "keydown" /\ ~(ev.refSet /\ ev.targetInside)) =>
    /\ ManagerUntouched
    /\ ev.domFocus = Undefined
    /\ ev.defaultPrevented = (ev.altKey /\ ev.key = "Tab")

\* Escape pressed in a portal of a focused collection that has a focused key
\* and a selection: the selection stays and the default is not prevented.
C31_Witness ==
  /\ ev.type = "keydown"
  /\ ev.key = "Escape"
  /\ ev.refSet
  /\ ~ev.targetInside
  /\ mounted
  /\ isFocused
  /\ focusedKey # Undefined
  /\ selectedKeys # {}
  /\ ~ev.defaultPrevented

\* Alt+Tab that finds the container ref unset is default-prevented.
C31_WitnessAltTab ==
  /\ ev.type = "keydown"
  /\ ev.key = "Tab"
  /\ ev.altKey
  /\ ~ev.refSet
  /\ ev.defaultPrevented

\* Ctrl+A pressed in a portal of a multiple-selection collection selects
\* nothing.
C31_WitnessSelectAll ==
  /\ ev.type = "keydown"
  /\ ev.key = "a"
  /\ ev.ctrlKey
  /\ ev.refSet
  /\ selectionMode = "multiple"
  /\ Len(items) > 1
  /\ selectedKeys # AllKeys
  /\ ~ev.defaultPrevented

====
